---------------------------- MODULE Spec2Model ----------------------------
(***************************************************************************)
(* A model of the merchant-risk scoring pipeline (src/src/services/        *)
(* pipeline.py and the stages it calls).  Spec is one run of pipeline.run  *)
(* on a dataset file; SpecApi is a caller using the public functions       *)
(* (clean, enrich_schema, apply_rules, daily_risk_trend, the trend         *)
(* insight) directly on a table of its own.                                *)
(*                                                                         *)
(* Scores are Python floats (IEEE-754 binary64).  They are modelled        *)
(* exactly: a finite non-negative double is m * 2^e with m a 53-bit        *)
(* natural number, kept as a little-endian sequence of 14-bit limbs, and   *)
(* every arithmetic operation rounds to nearest, ties to even, as the      *)
(* hardware does.  Amounts and time offsets are whole numbers, which       *)
(* binary64 represents exactly, so they are kept as integers.              *)
(***************************************************************************)
EXTENDS Integers, Sequences, FiniteSets, TLC

(***************************************************************************)
(* Natural numbers of arbitrary size: little-endian limbs, no high zeros.  *)
(***************************************************************************)
LimbBits == 2 * 7
LimbBase == 2^LimbBits
\* 52 stored fraction bits and the implicit leading one
MantBits == 52 + 1

Limb(a, i) == IF i >= 1 /\ i <= Len(a) THEN a[i] ELSE 0

RECURSIVE TopLimb(_, _)
TopLimb(a, n) == IF n = 0 \/ a[n] # 0 THEN n ELSE TopLimb(a, n - 1)

BigNorm(a) == SubSeq(a, 1, TopLimb(a, Len(a)))

\* limbs i..n of a + b, with carry c coming in
RECURSIVE BigAddAt(_, _, _, _, _)
BigAddAt(a, b, i, n, c) ==
    IF i > n THEN (IF c = 0 THEN << >> ELSE <<c>>)
    ELSE LET s == Limb(a, i) + Limb(b, i) + c
         IN  <<s % LimbBase>> \o BigAddAt(a, b, i + 1, n, s \div LimbBase)

BigAdd(a, b) == BigAddAt(a, b, 1, IF Len(a) > Len(b) THEN Len(a) ELSE Len(b), 0)

\* limbs i.. of a * k + c, for k and c below LimbBase * LimbBase
RECURSIVE BigMulSmallAt(_, _, _, _)
BigMulSmallAt(a, k, i, c) ==
    IF i > Len(a)
    THEN (IF c = 0 THEN << >>
          ELSE IF c < LimbBase THEN <<c>>
          ELSE <<c % LimbBase, c \div LimbBase>>)
    ELSE LET s == a[i] * k + c
         IN  <<s % LimbBase>> \o BigMulSmallAt(a, k, i + 1, s \div LimbBase)

\* a * k for a single-limb k
BigMulSmall(a, k) == IF k = 0 THEN << >> ELSE BigMulSmallAt(a, k, 1, 0)

\* column k of the product of two numbers of at most four limbs
MulColumn(a, b, k) ==
    Limb(a, 1) * Limb(b, k) + Limb(a, 2) * Limb(b, k - 1)
        + Limb(a, 3) * Limb(b, k - 2) + Limb(a, 4) * Limb(b, k - 3)

RECURSIVE MulColumns(_, _, _, _)
MulColumns(a, b, k, c) ==
    IF k > 8 THEN << >>
    ELSE LET s == MulColumn(a, b, k) + c
         IN  <<s % LimbBase>> \o MulColumns(a, b, k + 1, s \div LimbBase)

\* a * b for a and b of at most four limbs (a mantissa has four)
BigMul(a, b) == BigNorm(MulColumns(a, b, 1, 0))

\* <<quotient, remainder>> of a divided by a single-limb k, from the high limb down
RECURSIVE BigDivSmallAt(_, _, _, _)
BigDivSmallAt(a, k, i, r) ==
    IF i = 0 THEN << << >>, r >>
    ELSE LET cur  == r * LimbBase + a[i]
             rest == BigDivSmallAt(a, k, i - 1, cur % k)
         IN  << rest[1] \o <<cur \div k>>, rest[2] >>

BigDivSmall(a, k) ==
    LET qr == BigDivSmallAt(a, k, Len(a), 0) IN << BigNorm(qr[1]), qr[2] >>

RECURSIVE NatBitLen(_)
NatBitLen(n) == IF n = 0 THEN 0 ELSE 1 + NatBitLen(n \div 2)

BigBitLen(a) ==
    IF a = << >> THEN 0 ELSE (Len(a) - 1) * LimbBits + NatBitLen(a[Len(a)])

Zeros(n) == [i \in 1..n |-> 0]

BigShl(a, n) ==
    IF a = << >> THEN << >>
    ELSE Zeros(n \div LimbBits) \o BigMulSmall(a, 2^(n % LimbBits))

\* limbs i..n of a shifted right by w limbs and s bits
RECURSIVE BigShrAt(_, _, _, _, _)
BigShrAt(a, w, s, i, n) ==
    IF i > n THEN << >>
    ELSE << (Limb(a, i + w) \div 2^s) + (Limb(a, i + w + 1) % 2^s) * 2^(LimbBits - s) >>
         \o BigShrAt(a, w, s, i + 1, n)

BigShr(a, n) ==
    LET w == n \div LimbBits IN
    IF Len(a) <= w THEN << >>
    ELSE BigNorm(BigShrAt(a, w, n % LimbBits, 1, Len(a) - w))

BigIsOdd(a) == a # << >> /\ a[1] % 2 = 1

\* bit k of a (bit 0 is the lowest)
BigBit(a, k) == (Limb(a, (k \div LimbBits) + 1) \div 2^(k % LimbBits)) % 2

\* whether any of the k lowest bits of a is set
BigLowBits(a, k) ==
    \/ \E i \in 1..(k \div LimbBits) : Limb(a, i) # 0
    \/ Limb(a, (k \div LimbBits) + 1) % 2^(k % LimbBits) # 0

\* -1, 0, 1 as a < b, a = b, a > b
RECURSIVE BigCmpAt(_, _, _)
BigCmpAt(a, b, i) ==
    IF i = 0 THEN 0
    ELSE IF a[i] # b[i] THEN (IF a[i] < b[i] THEN -1 ELSE 1)
    ELSE BigCmpAt(a, b, i - 1)

BigCmp(a, b) ==
    IF Len(a) # Len(b) THEN (IF Len(a) < Len(b) THEN -1 ELSE 1)
    ELSE BigCmpAt(a, b, Len(a))

(***************************************************************************)
(* binary64 values.  NaN is what pandas puts where an index label has no   *)
(* partner; it compares false with everything.                             *)
(***************************************************************************)
NaN   == [nan |-> TRUE,  m |-> << >>, e |-> 0]
FZero == [nan |-> FALSE, m |-> << >>, e |-> 0]

\* n * 2^e correctly rounded to 53 bits (round to nearest, ties to even)
FRound(n, e) ==
    LET len == BigBitLen(n) IN
    IF len = 0 THEN FZero
    ELSE IF len = MantBits THEN [nan |-> FALSE, m |-> n, e |-> e]
    ELSE IF len < MantBits
    THEN [nan |-> FALSE, m |-> BigShl(n, MantBits - len), e |-> e - (MantBits - len)]
    ELSE LET sh == len - MantBits
             q  == BigShr(n, sh)
             up == /\ BigBit(n, sh - 1) = 1
                   /\ (BigLowBits(n, sh - 1) \/ BigIsOdd(q))
             q1 == IF up THEN BigAdd(q, <<1>>) ELSE q
         IN  IF BigBitLen(q1) > MantBits
             THEN [nan |-> FALSE, m |-> BigShr(q1, 1), e |-> e + sh + 1]
             ELSE [nan |-> FALSE, m |-> q1, e |-> e + sh]

\* the double a decimal literal n / 10^k denotes (k <= 4), as Python parses it
FromDecimal(n, k) ==
    LET big == BigMulSmallAt(<<1>>, n % LimbBase, 1, 0)
        num == BigAdd(big, <<0>> \o BigMulSmallAt(<<1>>, n \div LimbBase, 1, 0))
        qr  == BigDivSmall(BigShl(BigNorm(num), 80), 10^k)
        q2  == BigAdd(BigShl(qr[1], 1), IF qr[2] = 0 THEN << >> ELSE <<1>>)
    IN  FRound(q2, -81)

FMul(x, y) ==
    IF x.nan \/ y.nan THEN NaN
    ELSE IF x.m = << >> \/ y.m = << >> THEN FZero
    ELSE FRound(BigMul(x.m, y.m), x.e + y.e)

FAdd(x, y) ==
    IF x.nan \/ y.nan THEN NaN
    ELSE IF x.m = << >> THEN y
    ELSE IF y.m = << >> THEN x
    ELSE IF x.e <= y.e
    THEN FRound(BigAdd(x.m, BigShl(y.m, y.e - x.e)), x.e)
    ELSE FRound(BigAdd(BigShl(x.m, x.e - y.e), y.m), y.e)

\* x < y ; false when either is NaN
FLt(x, y) ==
    /\ ~x.nan /\ ~y.nan
    /\ y.m # << >>
    /\ \/ x.m = << >>
       \/ x.e < y.e
       \/ x.e = y.e /\ BigCmp(x.m, y.m) < 0

FEq(x, y) == ~x.nan /\ ~y.nan /\ x = y
FGe(x, y) == ~x.nan /\ ~y.nan /\ ~FLt(x, y)
FLe(x, y) == FGe(y, x)

\* pandas Series.clip(lower, upper): NaN stays NaN
FClip(x, lo, hi) ==
    IF x.nan THEN x ELSE IF FLt(x, lo) THEN lo ELSE IF FLt(hi, x) THEN hi ELSE x

\* a double given by its 53-bit mantissa (limbs) and exponent
FLit(limbs, e) == [nan |-> FALSE, m |-> limbs, e |-> e]

F0 == FZero
F1 == FromDecimal(1, 0)

\* a - b for a >= b, limb by limb from the low end with borrow c
RECURSIVE BigSubAt(_, _, _, _)
BigSubAt(a, b, i, c) ==
    IF i > Len(a) THEN << >>
    ELSE LET d == a[i] - Limb(b, i) - c
         IN  <<d % LimbBase>> \o BigSubAt(a, b, i + 1, IF d < 0 THEN 1 ELSE 0)

BigSub(a, b) == BigNorm(BigSubAt(a, b, 1, 0))

\* the value of a bignum of at most two limbs
BigToNat(a) == Limb(a, 1) + Limb(a, 2) * LimbBase

\* n * 2^(-sh) rounded to the nearest integer, ties to even
BigRint(n, sh) ==
    IF sh <= 0 THEN BigShl(n, 0 - sh)
    ELSE LET q  == BigShr(n, sh)
             up == /\ BigBit(n, sh - 1) = 1
                   /\ (BigLowBits(n, sh - 1) \/ BigIsOdd(q))
         IN  IF up THEN BigAdd(q, <<1>>) ELSE q

(***************************************************************************)
(* The operations below bind each operand once (v \in {x}) before using it, *)
(* so that an operand given as an expression is computed a single time.     *)
(***************************************************************************)
\* x - y for x >= y >= 0
FSubMag(x, y) ==
    CHOOSE r \in
      {IF w.m = << >> THEN v
       ELSE IF v.e >= w.e
       THEN FRound(BigSub(BigShl(v.m, v.e - w.e), w.m), w.e)
       ELSE FRound(BigSub(v.m, BigShl(w.m, w.e - v.e)), v.e) : v \in {x}, w \in {y}} : TRUE

\* a double with its sign, for the differences compensated summation forms
Signed(x)  == [neg |-> FALSE, abs |-> x]
SNeg(a)    == CHOOSE r \in {[neg |-> ~v.neg /\ v.abs.m # << >>, abs |-> v.abs] : v \in {a}} : TRUE
SAdd(a, b) ==
    CHOOSE r \in
      {IF v.neg = w.neg THEN [neg |-> v.neg, abs |-> FAdd(v.abs, w.abs)]
       ELSE IF FLt(v.abs, w.abs)
       THEN [neg |-> w.neg, abs |-> FSubMag(w.abs, v.abs)]
       ELSE CHOOSE q \in {[neg |-> v.neg /\ d.m # << >>, abs |-> d] :
                            d \in {FSubMag(v.abs, w.abs)}} : TRUE
       : v \in {a}, w \in {b}} : TRUE
SSub(a, b) == SAdd(a, SNeg(b))

\* x / d for an integer 0 < d < 2^14, correctly rounded
FDivSmall(x, d) ==
    CHOOSE r \in
      {IF v.nan THEN NaN
       ELSE IF v.m = << >> THEN FZero
       ELSE CHOOSE q \in
              {FRound(BigAdd(BigShl(qr[1], 1), IF qr[2] = 0 THEN << >> ELSE <<1>>),
                      v.e - 2 * LimbBits - 1) :
                 qr \in {BigDivSmall(BigShl(v.m, 2 * LimbBits), d)}} : TRUE
       : v \in {x}} : TRUE

FromInt(n) == FromDecimal(n, 0)

\* numpy.rint
FRint(x) ==
    CHOOSE r \in
      {IF v.nan \/ v.m = << >> THEN v ELSE FRound(BigRint(v.m, 0 - v.e), 0) : v \in {x}} : TRUE

\* numpy.round(x, decimals): rint(x * 10^decimals) / 10^decimals
Round(x, decimals) ==
    CHOOSE r \in
      {FDivSmall(k, 10^decimals) :
         k \in {FRint(s) : s \in {FMul(v, f) : v \in {x}, f \in {FromInt(10^decimals)}}}} : TRUE

\* the digits of format(x, ".<decimals>f") as the integer they spell without
\* the point: the exact value of x times 10^decimals, rounded half to even
FormatFixed(x, decimals) ==
    CHOOSE r \in
      {IF v.nan THEN -1
       ELSE IF v.m = << >> THEN 0
       ELSE BigToNat(BigRint(BigMulSmall(v.m, 10^decimals), 0 - v.e)) : v \in {x}} : TRUE

(***************************************************************************)
(* Tables.  A DataFrame is its column set and its rows in positional order; *)
(* a row carries its index label, its cells v (one per column) and na, the  *)
(* columns whose cell is missing (NaN; such a cell is kept as 0 in v).  A   *)
(* Series is a sequence of [idx, val].                                      *)
(***************************************************************************)
NoTable  == [cols |-> {}, rows |-> << >>]

Index(df) == [i \in 1..Len(df.rows) |-> df.rows[i].idx]
SeriesIndex(s) == [i \in 1..Len(s) |-> s[i].idx]
Values(s) == [i \in 1..Len(s) |-> s[i].val]

\* pd.Series(values, index=index)
MakeSeries(values, index) == [i \in 1..Len(values) |-> [idx |-> index[i], val |-> values[i]]]

\* a column of df as a Series; a missing cell has no usable value
Column(df, c) == [i \in 1..Len(df.rows) |-> [idx |-> df.rows[i].idx, val |-> df.rows[i].v[c]]]

\* df[name] = values (an array: assigned by position)
SetColumn(df, name, values) ==
    [cols |-> df.cols \cup {name},
     rows |-> [i \in 1..Len(df.rows) |->
                 [df.rows[i] EXCEPT
                    !.v = [c \in df.cols \cup {name} |->
                              IF c = name THEN values[i] ELSE df.rows[i].v[c]]]]]

Line(text, n) == [text |-> text, n |-> n]

(***************************************************************************)
(* governance.py                                                           *)
(***************************************************************************)
VNames == << "V1",  "V2",  "V3",  "V4",  "V5",  "V6",  "V7",
             "V8",  "V9",  "V10", "V11", "V12", "V13", "V14",
             "V15", "V16", "V17", "V18", "V19", "V20", "V21",
             "V22", "V23", "V24", "V25", "V26", "V27", "V28" >>

\* faulty variant: the comprehension stops one feature short (range(1, 28))
REQUIRED_COLUMNS_short == {"Time", "Amount", "Class"} \cup {VNames[i] : i \in 1..27}

REQUIRED_COLUMNS == {"Time", "Amount", "Class"} \cup {VNames[i] : i \in 1..28}

AMOUNT_CEILING == 50000

\* the required columns that are absent; the caller raises when there are any
_validate_schema(df) == {col \in REQUIRED_COLUMNS : col \notin df.cols}

_drop_nulls(df) ==
    LET kept    == SelectSeq(df.rows, LAMBDA r : r.na = {})
        removed == Len(df.rows) - Len(kept)
    IN  [df      |-> [df EXCEPT !.rows = kept],
         printed |-> IF removed # 0
                     THEN <<Line("[Governance] Dropped rows containing null values", removed)>>
                     ELSE << >>]

\* faulty variant: only the first repeated row found is removed
_remove_duplicates_once(df) ==
    LET Same(r, s) == r.v = s.v /\ r.na = s.na
        dup  == {i \in 1..Len(df.rows) :
                   \E j \in 1..(i - 1) : Same(df.rows[j], df.rows[i])}
        kept == IF dup = {} THEN df.rows
                ELSE LET d == CHOOSE i \in dup : \A k \in dup : i <= k
                     IN  SubSeq(df.rows, 1, d - 1) \o SubSeq(df.rows, d + 1, Len(df.rows))
        removed == Len(df.rows) - Len(kept)
    IN  [df      |-> [df EXCEPT !.rows = kept],
         printed |-> IF removed # 0
                     THEN <<Line("[Governance] Removed exact duplicate rows", removed)>>
                     ELSE << >>]

\* drop_duplicates(): the first of equal rows stays; missing cells count as equal
\* faulty variant: rows are compared on Amount alone (drop_duplicates(subset=["Amount"]))
_remove_duplicates_by_amount(df) ==
    LET Same(r, s) == /\ r.v["Amount"] = s.v["Amount"]
                      /\ ("Amount" \in r.na) = ("Amount" \in s.na)
        keep    == {i \in 1..Len(df.rows) :
                      \A j \in 1..(i - 1) : ~Same(df.rows[j], df.rows[i])}
        RECURSIVE Pick(_)
        Pick(i) == IF i > Len(df.rows) THEN << >>
                   ELSE (IF i \in keep THEN <<df.rows[i]>> ELSE << >>) \o Pick(i + 1)
        kept    == Pick(1)
        removed == Len(df.rows) - Len(kept)
    IN  [df      |-> [df EXCEPT !.rows = kept],
         printed |-> IF removed # 0
                     THEN <<Line("[Governance] Removed exact duplicate rows", removed)>>
                     ELSE << >>]

_remove_duplicates(df) ==
    LET Same(r, s) == r.v = s.v /\ r.na = s.na
        keep    == {i \in 1..Len(df.rows) :
                      \A j \in 1..(i - 1) : ~Same(df.rows[j], df.rows[i])}
        RECURSIVE Pick(_)
        Pick(i) == IF i > Len(df.rows) THEN << >>
                   ELSE (IF i \in keep THEN <<df.rows[i]>> ELSE << >>) \o Pick(i + 1)
        kept    == Pick(1)
        removed == Len(df.rows) - Len(kept)
    IN  [df      |-> [df EXCEPT !.rows = kept],
         printed |-> IF removed # 0
                     THEN <<Line("[Governance] Removed exact duplicate rows", removed)>>
                     ELSE << >>]

\* faulty variant: the ceiling itself is rejected (Amount < AMOUNT_CEILING)
_filter_invalid_amounts_exclusive(df) ==
    LET kept    == SelectSeq(df.rows,
                       LAMBDA r : /\ "Amount" \notin r.na
                                  /\ r.v["Amount"] >= 0
                                  /\ r.v["Amount"] < AMOUNT_CEILING)
        removed == Len(df.rows) - Len(kept)
    IN  [df      |-> [df EXCEPT !.rows = kept],
         printed |-> IF removed # 0
                     THEN <<Line("[Governance] Filtered rows with out-of-range Amount values", removed)>>
                     ELSE << >>]

_filter_invalid_amounts(df) ==
    LET kept    == SelectSeq(df.rows,
                       LAMBDA r : /\ "Amount" \notin r.na
                                  /\ r.v["Amount"] >= 0
                                  /\ r.v["Amount"] <= AMOUNT_CEILING)
        removed == Len(df.rows) - Len(kept)
    IN  [df      |-> [df EXCEPT !.rows = kept],
         printed |-> IF removed # 0
                     THEN <<Line("[Governance] Filtered rows with out-of-range Amount values", removed)>>
                     ELSE << >>]

\* prints nothing
_filter_invalid_labels(df) ==
    [df      |-> [df EXCEPT !.rows =
                     SelectSeq(df.rows,
                         LAMBDA r : "Class" \notin r.na /\ r.v["Class"] \in {0, 1})],
     printed |-> << >>]

\* [raised, missing, df, printed]: raised with the absent columns, or the clean table
clean(df) ==
    LET missing == _validate_schema(df) IN
    IF missing # {}
    THEN [raised |-> TRUE, missing |-> missing, df |-> NoTable, printed |-> << >>]
    ELSE LET s1 == _drop_nulls(df)
             s2 == _remove_duplicates(s1.df)
             s3 == _filter_invalid_amounts(s2.df)
             s4 == _filter_invalid_labels(s3.df)
         IN  [raised  |-> FALSE,
              missing |-> {},
              df      |-> s4.df,
              printed |-> s1.printed \o s2.printed \o s3.printed \o s4.printed \o
                          <<Line("[Governance] Validation complete", Len(s4.df.rows))>>]

(***************************************************************************)
(* schema.py.  numpy's PCG64 stream is stood in for by a small congruential *)
(* generator: what matters to the pipeline is that a generator is a state,  *)
(* that each draw advances it, and that equal states give equal draws.      *)
(***************************************************************************)
NUM_MERCHANTS == 20
NUM_CUSTOMERS == 200
RANDOM_SEED   == 42

\* 2024-01-01 00:00:00 : days counted from 2024-01-01, seconds within the day
BASE_DATETIME == [days |-> 0, secs |-> 0]

NoRng == [state |-> -1]

RECURSIVE Digits(_)
Digits(i) == IF i < 10 THEN <<i>> ELSE Digits(i \div 10) \o <<i % 10>>

\* str(i).zfill(w)
ZFill(i, w) ==
    LET d == Digits(i) IN [k \in 1..(w - Len(d)) |-> 0] \o d

merchants == [i \in 1..NUM_MERCHANTS |-> <<"MRC_">> \o ZFill(i, 3)]
customers == [i \in 1..NUM_CUSTOMERS |-> <<"CUST_">> \o ZFill(i, 4)]

\* faulty variant: one module-level generator, seeded once and then reused
default_rng_shared(seed, ambient) ==
    IF ambient.state < 0 THEN [state |-> seed % 65537] ELSE ambient

\* np.random.default_rng(seed): a new generator, whatever generator existed before
default_rng(seed, ambient) == [state |-> seed % 65537]

RngNext(g) == [state |-> (g.state * 75 + 74) % 65537]

\* rng.choice(pool, size=size): the drawn values and the generator afterwards
RECURSIVE Choice(_, _, _)
Choice(pool, size, g) ==
    IF size = 0 THEN [vals |-> << >>, g |-> g]
    ELSE LET g1   == RngNext(g)
             rest == Choice(pool, size - 1, g1)
         IN  [vals |-> <<pool[(g1.state % Len(pool)) + 1]>> \o rest.vals, g |-> rest.g]

_assign_merchant_ids(df, g) ==
    LET c == Choice(merchants, Len(df.rows), g)
    IN  [df |-> SetColumn(df, "merchant_id", c.vals), g |-> c.g]

_assign_customer_ids(df, g) ==
    LET c == Choice(customers, Len(df.rows), g)
    IN  [df |-> SetColumn(df, "customer_id", c.vals), g |-> c.g]

\* BASE_DATETIME + pd.to_timedelta(t, unit="s")
AddSeconds(base, t) ==
    [days |-> base.days + ((base.secs + t) \div 86400),
     secs |-> (base.secs + t) % 86400]

_add_transaction_time(df) ==
    SetColumn(df, "transaction_time",
              [i \in 1..Len(df.rows) |-> AddSeconds(BASE_DATETIME, df.rows[i].v["Time"])])

\* the enriched copy, and the state the call leaves its generator in
enrich_schema(df, ambient) ==
    LET rng0 == default_rng(RANDOM_SEED, ambient)
        m    == _assign_merchant_ids(df, rng0)
        c    == _assign_customer_ids(m.df, m.g)
    IN  [df |-> _add_transaction_time(c.df), g |-> c.g]

\* the caller's table after enrich_schema(df): the function works on df.copy()
enrich_schema_argument(df, ambient) == df

(***************************************************************************)
(* features.py and fraud_model.py.  The scaled amount is kept as the term   *)
(* it is computed from (the amount and the sample the scaler was fitted     *)
(* on); the fitted classifier is any function from feature rows to          *)
(* probabilities.  scikit-learn refuses an empty sample (StandardScaler)    *)
(* and a label vector with fewer than two classes (LogisticRegression.fit). *)
(***************************************************************************)
V_FEATURES == {VNames[i] : i \in 1..28}
TARGET_COL == "Class"

build_feature_matrix(df) ==
    IF Len(df.rows) = 0
    THEN [raised |-> TRUE, X |-> NoTable, y |-> << >>]
    ELSE LET sample == [i \in 1..Len(df.rows) |-> df.rows[i].v["Amount"]]
             feature_cols == V_FEATURES \cup {"Amount_scaled"}
             scaled(i) == [amount |-> df.rows[i].v["Amount"], fitted |-> sample]
         IN  [raised |-> FALSE,
              X |-> [cols |-> feature_cols,
                     rows |-> [i \in 1..Len(df.rows) |->
                                 [idx |-> df.rows[i].idx,
                                  na  |-> {},
                                  v   |-> [c \in feature_cols |->
                                             IF c = "Amount_scaled" THEN scaled(i)
                                             ELSE df.rows[i].v[c]]]]],
              y |-> Column(df, TARGET_COL)]

\* the caller's table after build_feature_matrix(df): Amount_scaled is written
\* into df.copy()
build_feature_matrix_argument(df) == df

\* model.fit(X, y) raises unless both classes occur
train(X, y) == [raised |-> Cardinality({y[i].val : i \in 1..Len(y)}) < 2]

\* model.predict_proba(X)[:, 1] for a fitted classifier clf
predict_fraud_probability(clf, X) == [i \in 1..Len(X.rows) |-> clf[X.rows[i].v]]

(***************************************************************************)
(* rule_engine.py                                                          *)
(***************************************************************************)
AMOUNT_MODERATE      == 200
AMOUNT_HIGH          == 1000
AMOUNT_VERY_HIGH     == 3000
HIGH_VELOCITY_CUTOFF == 10
OFF_HOURS_START      == 0
OFF_HOURS_END        == 5

Score02 == FromDecimal(2, 1)
Score04 == FromDecimal(4, 1)
Score06 == FromDecimal(6, 1)

\* scores[mask] = value
MaskAssign(scores, mask, value) ==
    [i \in 1..Len(scores) |-> IF mask[i] THEN [scores[i] EXCEPT !.val = value] ELSE scores[i]]

ZeroSeries(df) == [i \in 1..Len(df.rows) |-> [idx |-> df.rows[i].idx, val |-> F0]]

\* df["Amount"] >= bound ; a missing amount compares false
AmountAtLeast(df, bound) ==
    [i \in 1..Len(df.rows) |->
        "Amount" \notin df.rows[i].na /\ df.rows[i].v["Amount"] >= bound]

\* faulty variant: the tiers are assigned from the highest down, so the lowest wins
_score_amount_reversed(df) ==
    LET s0 == ZeroSeries(df)
        s1 == MaskAssign(s0, AmountAtLeast(df, AMOUNT_VERY_HIGH), Score06)
        s2 == MaskAssign(s1, AmountAtLeast(df, AMOUNT_HIGH), Score04)
    IN  MaskAssign(s2, AmountAtLeast(df, AMOUNT_MODERATE), Score02)

_score_amount(df) ==
    LET s0 == ZeroSeries(df)
        s1 == MaskAssign(s0, AmountAtLeast(df, AMOUNT_MODERATE), Score02)
        s2 == MaskAssign(s1, AmountAtLeast(df, AMOUNT_HIGH), Score04)
    IN  MaskAssign(s2, AmountAtLeast(df, AMOUNT_VERY_HIGH), Score06)

\* df["customer_id"].map(df["customer_id"].value_counts())
CustomerFreq(df) ==
    [i \in 1..Len(df.rows) |->
        Cardinality({j \in 1..Len(df.rows) :
                        df.rows[j].v["customer_id"] = df.rows[i].v["customer_id"]})]

\* faulty variant: the cutoff is exclusive (freq > HIGH_VELOCITY_CUTOFF)
_score_customer_velocity_strict(df) ==
    LET freq == CustomerFreq(df)
    IN  MaskAssign(ZeroSeries(df),
                   [i \in 1..Len(df.rows) |-> freq[i] > HIGH_VELOCITY_CUTOFF],
                   Score02)

_score_customer_velocity(df) ==
    LET freq == CustomerFreq(df)
    IN  MaskAssign(ZeroSeries(df),
                   [i \in 1..Len(df.rows) |-> freq[i] >= HIGH_VELOCITY_CUTOFF],
                   Score02)

\* Series.dt.hour
Hour(t) == t.secs \div 3600

\* faulty variant: a table without timestamps is treated as all off-hours
_score_off_hours_flagged(df) ==
    IF "transaction_time" \in df.cols
    THEN MaskAssign(ZeroSeries(df),
                    [i \in 1..Len(df.rows) |->
                        /\ Hour(df.rows[i].v["transaction_time"]) >= OFF_HOURS_START
                        /\ Hour(df.rows[i].v["transaction_time"]) <= OFF_HOURS_END],
                    Score02)
    ELSE MaskAssign(ZeroSeries(df), [i \in 1..Len(df.rows) |-> TRUE], Score02)

_score_off_hours(df) ==
    IF "transaction_time" \in df.cols
    THEN MaskAssign(ZeroSeries(df),
                    [i \in 1..Len(df.rows) |->
                        /\ Hour(df.rows[i].v["transaction_time"]) >= OFF_HOURS_START
                        /\ Hour(df.rows[i].v["transaction_time"]) <= OFF_HOURS_END],
                    Score02)
    ELSE ZeroSeries(df)

\* the labels of a set in ascending order
RECURSIVE SortedLabels(_)
SortedLabels(S) ==
    IF S = {} THEN << >>
    ELSE LET lo == CHOOSE x \in S : \A z \in S : x <= z
         IN  <<lo>> \o SortedLabels(S \ {lo})

\* a + b on two Series: label by label; a label without partner gives NaN
SeriesAdd(a, b) ==
    IF SeriesIndex(a) = SeriesIndex(b)
    THEN [i \in 1..Len(a) |-> [idx |-> a[i].idx, val |-> FAdd(a[i].val, b[i].val)]]
    ELSE LET la  == {a[i].idx : i \in 1..Len(a)}
             lb  == {b[i].idx : i \in 1..Len(b)}
             all == SortedLabels(la \cup lb)
             At(s, l) == s[CHOOSE i \in 1..Len(s) : s[i].idx = l].val
         IN  [k \in 1..Len(all) |->
                [idx |-> all[k],
                 val |-> IF all[k] \in la /\ all[k] \in lb
                         THEN FAdd(At(a, all[k]), At(b, all[k]))
                         ELSE NaN]]

\* w * s
SeriesScale(w, s) == [i \in 1..Len(s) |-> [s[i] EXCEPT !.val = FMul(w, s[i].val)]]

SeriesClip(s, lo, hi) == [i \in 1..Len(s) |-> [s[i] EXCEPT !.val = FClip(s[i].val, lo, hi)]]

apply_rules(df) ==
    LET combined == SeriesAdd(SeriesAdd(_score_amount(df), _score_customer_velocity(df)),
                              _score_off_hours(df))
    IN  SeriesClip(combined, F0, F1)

(***************************************************************************)
(* risk_engine.py                                                          *)
(***************************************************************************)
\* faulty variant: equal weights
RULE_WEIGHT_EVEN == FromDecimal(5, 1)

RULE_WEIGHT      == FromDecimal(35, 2)
ML_WEIGHT        == FromDecimal(65, 2)
THRESHOLD_HIGH   == FromDecimal(70, 2)
THRESHOLD_MEDIUM == FromDecimal(40, 2)

\* faulty variant: the two weights are exchanged
_compute_hybrid_score_swapped(rule_risk, ml_probability) ==
    SeriesClip(SeriesAdd(SeriesScale(ML_WEIGHT, rule_risk),
                         SeriesScale(RULE_WEIGHT, ml_probability)),
               F0, F1)

_compute_hybrid_score(rule_risk, ml_probability) ==
    SeriesClip(SeriesAdd(SeriesScale(RULE_WEIGHT, rule_risk),
                         SeriesScale(ML_WEIGHT, ml_probability)),
               F0, F1)

\* faulty variant: the comparisons are exclusive (score > threshold)
RiskLabel_strict(x) ==
    IF FLt(THRESHOLD_HIGH, x) THEN "HIGH"
    ELSE IF FLt(THRESHOLD_MEDIUM, x) THEN "MEDIUM"
    ELSE "LOW"

\* np.select([score >= HIGH, score >= MEDIUM], ["HIGH", "MEDIUM"], default="LOW")
RiskLabel(x) ==
    IF FGe(x, THRESHOLD_HIGH) THEN "HIGH"
    ELSE IF FGe(x, THRESHOLD_MEDIUM) THEN "MEDIUM"
    ELSE "LOW"

_assign_risk_label(score) ==
    [i \in 1..Len(score) |-> [idx |-> score[i].idx, val |-> RiskLabel(score[i].val)]]

\* each column is assigned from an array (.values): its length must be len(df)
score_transactions(df, rule_risk, ml_probability) ==
    LET hybrid == _compute_hybrid_score(rule_risk, ml_probability)
        n      == Len(df.rows)
    IN  IF Len(rule_risk) # n \/ Len(ml_probability) # n \/ Len(hybrid) # n
        THEN [raised |-> TRUE, df |-> NoTable]
        ELSE LET d1 == SetColumn(df, "rule_risk", Values(rule_risk))
                 d2 == SetColumn(d1, "ml_probability", Values(ml_probability))
                 d3 == SetColumn(d2, "final_risk_score", Values(hybrid))
                 d4 == SetColumn(d3, "risk_label",
                                 Values(_assign_risk_label(Column(d3, "final_risk_score"))))
             IN  [raised |-> FALSE, df |-> d4]

\* the caller's table after score_transactions(df, ...): the four columns are
\* written into df.copy()
score_transactions_argument(df, rule_risk, ml_probability) == df


(***************************************************************************)
(* risk_metrics.py.  A result table is its column names in order and its    *)
(* rows as records.  The order sort_values leaves rows of equal key in is   *)
(* not fixed by the default sort kind; the functions that sort take the     *)
(* order as the argument "order", one of the orders the sort can produce.   *)
(***************************************************************************)
\* the non-missing cells of a column of some rows, in row order
Present(rows, c) ==
    LET kept == SelectSeq(rows, LAMBDA r : c \notin r.na)
    IN  [i \in 1..Len(kept) |-> kept[i].v[c]]

\* GroupBy.sum of an integer column
RECURSIVE group_sum(_)
group_sum(vals) == IF vals = << >> THEN 0 ELSE Head(vals) + group_sum(Tail(vals))

\* the compensated (Kahan) running sum GroupBy.mean keeps
RECURSIVE KahanSum(_, _, _, _)
KahanSum(vals, i, sumx, compensation) ==
    IF i > Len(vals) THEN sumx
    ELSE CHOOSE r \in
           {CHOOSE q \in {KahanSum(vals, i + 1, t, SSub(SSub(t, sumx), yy)) :
                            t \in {SAdd(sumx, yy)}} : TRUE
            : yy \in {SSub(Signed(vals[i]), compensation)}} : TRUE

\* GroupBy.mean of a float column: NaN for a group without values
group_mean(vals) ==
    CHOOSE r \in
      {IF v = << >> THEN NaN
       ELSE FDivSmall(KahanSum(v, 1, Signed(F0), Signed(F0)).abs, Len(v)) : v \in {vals}} : TRUE

Orderings(n) == {p \in [1..n -> 1..n] : \A i, j \in 1..n : p[i] = p[j] => i = j}

\* faulty variant: the sort is ascending
sort_values_ascending(keys) ==
    UNION {{p \in Orderings(Len(ks)) :
              \A i \in 1..(Len(ks) - 1) :
                  \/ ks[p[i + 1]].nan
                  \/ FLe(ks[p[i]], ks[p[i + 1]])} : ks \in {keys}}

\* sort_values(ascending=False) on float keys: the orders it can leave the
\* positions 1..Len(keys) in (NaN keys last)
sort_values_descending(keys) ==
    UNION {{p \in Orderings(Len(ks)) :
              \A i \in 1..(Len(ks) - 1) :
                  \/ ks[p[i + 1]].nan
                  \/ FGe(ks[p[i]], ks[p[i + 1]])} : ks \in {keys}}

\* the number a merchant identifier MRC_ddd ends in; identifiers order as these do
MerchantNo(id) == id[2] * 100 + id[3] * 10 + id[4]

\* groupby("merchant_id").agg(...): one row per identifier, ascending
merchant_groups(df) ==
    LET keyed == SelectSeq(df.rows, LAMBDA r : "merchant_id" \notin r.na)
        nos   == SortedLabels({MerchantNo(keyed[i].v["merchant_id"]) : i \in 1..Len(keyed)})
    IN  [k \in 1..Len(nos) |->
           CHOOSE row \in
             {[merchant_id        |-> g[1].v["merchant_id"],
               total_transactions |-> Len(Present(g, "final_risk_score")),
               avg_risk           |-> group_mean(Present(g, "final_risk_score")),
               fraud_count        |-> group_sum(Present(g, "Class")),
               avg_amount         |-> LET amounts == Present(g, "Amount")
                                      IN  group_mean([i \in 1..Len(amounts) |->
                                                         FromInt(amounts[i])])] :
                g \in {SelectSeq(keyed,
                          LAMBDA r : MerchantNo(r.v["merchant_id"]) = nos[k])}} : TRUE]

\* faulty variant: the fraud rate is taken over the whole table's row count
merchant_ranking_overall(df, order) ==
    CHOOSE ranking \in
      {[columns |-> <<"merchant_id", "total_transactions", "avg_risk", "fraud_count",
                      "avg_amount", "fraud_rate">>,
        rows |-> [k \in 1..Len(groups) |->
           LET g == groups[order[k]] IN
           [merchant_id        |-> g.merchant_id,
            total_transactions |-> g.total_transactions,
            avg_risk           |-> Round(g.avg_risk, 4),
            fraud_count        |-> g.fraud_count,
            avg_amount         |-> Round(g.avg_amount, 2),
            fraud_rate         |-> Round(FDivSmall(FromInt(g.fraud_count), Len(df.rows)), 4)]]] :
         groups \in {merchant_groups(df)}} : TRUE

merchant_ranking(df, order) ==
    CHOOSE ranking \in
      {[columns |-> <<"merchant_id", "total_transactions", "avg_risk", "fraud_count",
                      "avg_amount", "fraud_rate">>,
        rows |-> [k \in 1..Len(groups) |->
           LET g == groups[order[k]] IN
           [merchant_id        |-> g.merchant_id,
            total_transactions |-> g.total_transactions,
            avg_risk           |-> Round(g.avg_risk, 4),
            fraud_count        |-> g.fraud_count,
            avg_amount         |-> Round(g.avg_amount, 2),
            fraud_rate         |-> IF g.total_transactions = 0 THEN NaN
                                   ELSE Round(FDivSmall(FromInt(g.fraud_count),
                                                        g.total_transactions), 4)]]] :
         groups \in {merchant_groups(df)}} : TRUE

\* the orders the ranking's sort on avg_risk can produce for df
ranking_orders(df) ==
    LET groups == merchant_groups(df)
    IN  sort_values_descending([k \in 1..Len(groups) |-> groups[k].avg_risk])

\* faulty variant: the timestamp is rounded to the nearest midnight
Date_nearest(t) == t.days + (IF t.secs >= 43200 THEN 1 ELSE 0)

\* Series.dt.date, as the day number
Date(t) == t.days

daily_risk_trend(df) ==
    LET columns == <<"date", "avg_risk", "fraud_count", "transaction_count">>
        _empty  == [columns |-> columns, rows |-> << >>]
    IN  IF "transaction_time" \notin df.cols THEN _empty
        ELSE LET dated  == SelectSeq(df.rows, LAMBDA r : "transaction_time" \notin r.na)
                 dates  == SortedLabels({Date(dated[i].v["transaction_time"]) :
                                            i \in 1..Len(dated)})
             IN  [columns |-> columns,
                  rows |-> [k \in 1..Len(dates) |->
                      LET g == SelectSeq(dated,
                                   LAMBDA r : Date(r.v["transaction_time"]) = dates[k])
                          scores == Present(g, "final_risk_score")
                      IN  [date |-> dates[k],
                           avg_risk |-> Round(group_mean(scores), 4),
                           fraud_count |-> group_sum(Present(g, "Class")),
                           transaction_count |-> Len(scores)]]]

\* faulty variant: the comparison is exclusive (score > threshold)
high_risk_count_strict(df, threshold) ==
    Len(SelectSeq(df.rows, LAMBDA r : "final_risk_score" \notin r.na
                                      /\ FLt(threshold, r.v["final_risk_score"])))

high_risk_count(df, threshold) ==
    Len(SelectSeq(df.rows, LAMBDA r : "final_risk_score" \notin r.na
                                      /\ FGe(r.v["final_risk_score"], threshold)))

display_cols ==
    <<"transaction_time", "merchant_id", "customer_id", "Amount", "rule_risk",
      "ml_probability", "final_risk_score", "risk_label", "Class">>

\* df.loc[df["final_risk_score"] >= threshold, available]
high_risk_selection(df, threshold) ==
    LET available == SelectSeq(display_cols, LAMBDA c : c \in df.cols)
        shown     == {available[i] : i \in 1..Len(available)}
        kept      == SelectSeq(df.rows, LAMBDA r : "final_risk_score" \notin r.na
                                           /\ FGe(r.v["final_risk_score"], threshold))
    IN  [columns |-> available,
         rows |-> [i \in 1..Len(kept) |->
                     [idx |-> kept[i].idx,
                      v   |-> [c \in shown |-> kept[i].v[c]],
                      na  |-> kept[i].na \cap shown]]]

high_risk_transactions(df, threshold, order) ==
    LET sel == high_risk_selection(df, threshold)
    IN  [columns |-> sel.columns,
         rows |-> [k \in 1..Len(sel.rows) |-> [sel.rows[order[k]] EXCEPT !.idx = k - 1]]]

\* the orders the sort on final_risk_score can produce
high_risk_orders(df, threshold) ==
    LET sel == high_risk_selection(df, threshold)
    IN  sort_values_descending([i \in 1..Len(sel.rows) |-> sel.rows[i].v["final_risk_score"]])

(***************************************************************************)
(* agent.py.  A message is its severity marker (the word before the first   *)
(* ": ", or "" when it has none), the rest of its text with {} where a      *)
(* formatted value stands, and the formatted values in order.               *)
(***************************************************************************)
Message(severity, text, args) == [severity |-> severity, text |-> text, args |-> args]

\* f"{value * 100:.2f}%": the digits, two of them after the point
_pct(value) == FormatFixed(FMul(value, FromInt(100)), 2)

\* f"{value:.4f}": the digits, four of them after the point
_score(value) == FormatFixed(value, 4)

\* faulty variant: the comparisons include the thresholds
_insight_fraud_rate_inclusive(fraud_rate) ==
    IF FGe(fraud_rate, FromDecimal(5, 2))
    THEN Message("ALERT", "Fraud rate is critically elevated at {}%. Immediate escalation and manual case review are recommended.",
                 <<_pct(fraud_rate)>>)
    ELSE IF FGe(fraud_rate, FromDecimal(1, 2))
    THEN Message("WARNING", "Fraud rate is above normal at {}%. Increase monitoring frequency and review flagged merchants.",
                 <<_pct(fraud_rate)>>)
    ELSE Message("", "Fraud rate is within acceptable bounds at {}%. No systemic fraud pattern detected.",
                 <<_pct(fraud_rate)>>)

_insight_fraud_rate(fraud_rate) ==
    IF FLt(FromDecimal(5, 2), fraud_rate)
    THEN Message("ALERT", "Fraud rate is critically elevated at {}%. Immediate escalation and manual case review are recommended.",
                 <<_pct(fraud_rate)>>)
    ELSE IF FLt(FromDecimal(1, 2), fraud_rate)
    THEN Message("WARNING", "Fraud rate is above normal at {}%. Increase monitoring frequency and review flagged merchants.",
                 <<_pct(fraud_rate)>>)
    ELSE Message("", "Fraud rate is within acceptable bounds at {}%. No systemic fraud pattern detected.",
                 <<_pct(fraud_rate)>>)

_insight_avg_risk(avg_risk) ==
    IF FLt(FromDecimal(70, 2), avg_risk)
    THEN Message("ALERT", "Portfolio-wide average risk score is HIGH ({}). Review top-ranked merchants and consider tightening transaction limits.",
                 <<_score(avg_risk)>>)
    ELSE IF FLt(FromDecimal(40, 2), avg_risk)
    THEN Message("WARNING", "Portfolio average risk score is MODERATE ({}). Monitor borderline merchants proactively.",
                 <<_score(avg_risk)>>)
    ELSE Message("", "Portfolio average risk score is LOW ({}). System operating within normal risk parameters.",
                 <<_score(avg_risk)>>)

_insight_top_merchant(merchant_df) ==
    IF merchant_df.rows = << >>
    THEN Message("", "No merchant data available for analysis.", << >>)
    ELSE LET top == merchant_df.rows[1]
         IN  Message("", "Highest-risk merchant: {} - avg risk score {}, {} transactions, fraud rate {}%.",
                     <<top.merchant_id, _score(top.avg_risk), top.total_transactions,
                       _pct(top.fraud_rate)>>)

\* Series.mean of at most 7 values: the sum from the left, over the count
RECURSIVE SumFrom(_, _, _)
SumFrom(vals, i, acc) ==
    IF i > Len(vals) THEN acc
    ELSE CHOOSE r \in {SumFrom(vals, i + 1, a) : a \in {FAdd(acc, vals[i])}} : TRUE

nanmean(vals) ==
    CHOOSE r \in
      {IF v = << >> THEN NaN ELSE FDivSmall(SumFrom(v, 1, F0), Len(v)) : v \in {vals}} : TRUE

\* DataFrame.head(n): the first n rows, all of them when there are fewer
head(rows, n) == SubSeq(rows, 1, IF Len(rows) < n THEN Len(rows) ELSE n)

\* faulty variant: one row short
tail_short(rows, n) ==
    SubSeq(rows, IF Len(rows) < n - 1 THEN 1 ELSE Len(rows) - n + 2, Len(rows))

\* DataFrame.tail(n): the last n rows, all of them when there are fewer
tail(rows, n) == SubSeq(rows, IF Len(rows) < n THEN 1 ELSE Len(rows) - n + 1, Len(rows))

\* faulty variant: the recent window is the last point only
_insight_risk_trend_last(trend_df) ==
    LET n == Len(trend_df.rows) IN
    IF n = 0 \/ n < 2
    THEN Message("", "Insufficient time-series data for trend analysis.", << >>)
    ELSE LET avg          == [i \in 1..n |-> trend_df.rows[i].avg_risk]
             recent_avg   == avg[n]
             baseline_avg == nanmean(SubSeq(avg, 1, IF n > 3 THEN 3 ELSE n))
         IN  IF FLt(FMul(baseline_avg, FromDecimal(110, 2)), recent_avg)
             THEN Message("WARNING", "Risk trend is INCREASING. Recent avg: {} vs baseline: {}. Investigate recent activity spikes and new merchant patterns.",
                          <<_score(recent_avg), _score(baseline_avg)>>)
             ELSE IF FLt(recent_avg, FMul(baseline_avg, FromDecimal(90, 2)))
             THEN Message("", "Risk trend is DECREASING. Recent avg: {} vs baseline: {}. Risk controls appear to be working effectively.",
                          <<_score(recent_avg), _score(baseline_avg)>>)
             ELSE Message("", "Risk trend is STABLE. Recent avg: {} is consistent with baseline: {}.",
                          <<_score(recent_avg), _score(baseline_avg)>>)

_insight_risk_trend(trend_df) ==
    LET n == Len(trend_df.rows) IN
    IF n = 0 \/ n < 2
    THEN Message("", "Insufficient time-series data for trend analysis.", << >>)
    ELSE LET recent       == tail(trend_df.rows, 3)
             baseline     == head(trend_df.rows, 3)
             recent_avg   == nanmean([i \in 1..Len(recent) |-> recent[i].avg_risk])
             baseline_avg == nanmean([i \in 1..Len(baseline) |-> baseline[i].avg_risk])
         IN  IF FLt(FMul(baseline_avg, FromDecimal(110, 2)), recent_avg)
             THEN Message("WARNING", "Risk trend is INCREASING. Recent avg: {} vs baseline: {}. Investigate recent activity spikes and new merchant patterns.",
                          <<_score(recent_avg), _score(baseline_avg)>>)
             ELSE IF FLt(recent_avg, FMul(baseline_avg, FromDecimal(90, 2)))
             THEN Message("", "Risk trend is DECREASING. Recent avg: {} vs baseline: {}. Risk controls appear to be working effectively.",
                          <<_score(recent_avg), _score(baseline_avg)>>)
             ELSE Message("", "Risk trend is STABLE. Recent avg: {} is consistent with baseline: {}.",
                          <<_score(recent_avg), _score(baseline_avg)>>)

\* risk_metrics.avg_risk and fraud_rate: float(Series.mean())
avg_risk(df) == nanmean(Present(df.rows, "final_risk_score"))

fraud_rate(df) ==
    LET labels == Present(df.rows, "Class")
    IN  nanmean([i \in 1..Len(labels) |-> FromInt(labels[i])])

compute_all(df, threshold, ranking_order, high_risk_order) ==
    [avg_risk               |-> avg_risk(df),
     fraud_rate             |-> fraud_rate(df),
     high_risk_count        |-> high_risk_count(df, threshold),
     total_transactions     |-> Len(df.rows),
     merchant_ranking       |-> merchant_ranking(df, ranking_order),
     daily_risk_trend       |-> daily_risk_trend(df),
     high_risk_transactions |-> high_risk_transactions(df, threshold, high_risk_order)]

\* pd.DataFrame()
EmptyFrame == [columns |-> << >>, rows |-> << >>]

\* metrics.get(key, default)
Get(metrics, key, default) == IF key \in DOMAIN metrics THEN metrics[key] ELSE default

\* faulty variant: the trend insight is left out when the trend has no rows
generate_insights_skipping(metrics) ==
    <<_insight_fraud_rate(Get(metrics, "fraud_rate", F0)),
      _insight_avg_risk(Get(metrics, "avg_risk", F0)),
      _insight_top_merchant(Get(metrics, "merchant_ranking", EmptyFrame))>>
    \o (IF Get(metrics, "daily_risk_trend", EmptyFrame).rows = << >> THEN << >>
        ELSE <<_insight_risk_trend(Get(metrics, "daily_risk_trend", EmptyFrame))>>)

generate_insights(metrics) ==
    <<_insight_fraud_rate(Get(metrics, "fraud_rate", F0)),
      _insight_avg_risk(Get(metrics, "avg_risk", F0)),
      _insight_top_merchant(Get(metrics, "merchant_ranking", EmptyFrame)),
      _insight_risk_trend(Get(metrics, "daily_risk_trend", EmptyFrame))>>

\* analytics_service.get_ai_insights
get_ai_insights(df, threshold, ranking_order, high_risk_order) ==
    generate_insights(compute_all(df, threshold, ranking_order, high_risk_order))

(***************************************************************************)
(* The datasets a run is checked on: up to MaxRows records drawn from a     *)
(* pool (valid ones of both classes, at the amount bounds 0 and 50000 and   *)
(* on both sides of the off-hours window; records with a missing cell, an   *)
(* out-of-range amount, a non-binary label), in a file with exactly the     *)
(* dataset's columns, with one more column (a note, or a merchant_id the    *)
(* file brings itself), or with one column absent.                          *)
(***************************************************************************)
MaxRows == 3

\* the header of creditcard.csv
DatasetColumns == {"Time", "Amount", "Class"} \cup {VNames[i] : i \in 1..Len(VNames)}

\* P(fraud) values a fitted classifier may return: 0, 1, and the two doubles
\* that bring a row of rule score 0.2 exactly onto the 0.40 and 0.70 thresholds
\* (0.5076923076923077 and 0.9692307692307692)
ProbVals ==
    { F0,
      FLit(<<1008, 252, 12351, 1039>>, -53),
      FLit(<<12351, 15375, 16131, 1984>>, -53),
      F1 }

PoolRows ==
    << [time |-> 3600,  amount |-> 0,     class |-> 0, feat |-> 0, na |-> {}],
       [time |-> 43200, amount |-> 50000, class |-> 1, feat |-> 1, na |-> {}],
       [time |-> 21599, amount |-> 1000,  class |-> 1, feat |-> 0, na |-> {}],
       [time |-> 21600, amount |-> 250,   class |-> 0, feat |-> 1, na |-> {}],
       [time |-> 3600,  amount |-> -1,    class |-> 0, feat |-> 0, na |-> {}],
       [time |-> 43200, amount |-> 50000, class |-> 1, feat |-> 1, na |-> {"V5"}],
       [time |-> 3600,  amount |-> 50001, class |-> 1, feat |-> 0, na |-> {}],
       [time |-> 3600,  amount |-> 300,   class |-> 2, feat |-> 0, na |-> {}],
       [time |-> 3600,  amount |-> 0,     class |-> 0, feat |-> 0, na |-> {"Amount"}],
       [time |-> 3600,  amount |-> 0,     class |-> 0, feat |-> 0, na |-> {"note"}] >>

\* the records a whole run is checked on; governance alone is checked on all
RunPool == {1, 2, 4, 5, 6}

MkRow(cols, p, label) ==
    [idx |-> label,
     na  |-> p.na \cap cols,
     v   |-> [c \in cols |->
                IF c \in p.na THEN 0
                ELSE CASE c = "Time"   -> p.time
                       [] c = "Amount" -> p.amount
                       [] c = "Class"  -> p.class
                       [] c = "merchant_id" -> <<"MRC_">> \o ZFill(999, 3)
                       [] OTHER        -> p.feat]]

\* pd.read_csv gives the rows the labels 0, 1, 2, ...
MkTable(cols, ks) ==
    [cols |-> cols, rows |-> [i \in 1..Len(ks) |-> MkRow(cols, PoolRows[ks[i]], i - 1)]]

SeqsUpTo(S, n) == UNION {[1..k -> S] : k \in 0..n}

WithoutOne == {DatasetColumns \ {c} : c \in DatasetColumns}

\* the tables governance is called on directly
RawTables ==
    {MkTable(cols, ks) : cols \in {DatasetColumns, DatasetColumns \cup {"note"}},
                         ks \in SeqsUpTo(1..Len(PoolRows), MaxRows)}
    \cup
    {MkTable(cols, ks) : cols \in WithoutOne, ks \in SeqsUpTo(1..Len(PoolRows), 1)}

\* the tables a whole run is checked on
RunTables ==
    {MkTable(DatasetColumns, ks) : ks \in SeqsUpTo(RunPool, MaxRows)}
    \cup
    {MkTable(DatasetColumns \cup {"merchant_id"}, ks) : ks \in SeqsUpTo(RunPool, MaxRows - 1)}
    \cup
    {MkTable(cols, ks) : cols \in {DatasetColumns \cup {"note"}} \cup WithoutOne,
                         ks \in SeqsUpTo(RunPool, 1)}

NoFile == [exists |-> FALSE, table |-> NoTable]

Files == {NoFile} \cup {[exists |-> TRUE, table |-> t] : t \in RunTables}

(***************************************************************************)
(* The tables the rule engine and the trend are called on directly: one or  *)
(* two probe transactions, followed by none, MaxFill - 1 or MaxFill further *)
(* transactions of customer 1, so that a customer's count passes the        *)
(* velocity cutoff; with and without the transaction_time column.           *)
(***************************************************************************)
MaxProbes == 2
MaxFill   == 9

Clock(d, h, m, s) == [days |-> d, secs |-> (h * 60 + m) * 60 + s]

ProbeRows ==
    << [amount |-> 199,  cust |-> 1, at |-> Clock(0, 5, 59, 59),  class |-> 0, score |-> F0],
       [amount |-> 200,  cust |-> 1, at |-> Clock(0, 5, 59, 59),  class |-> 0, score |-> F1],
       [amount |-> 999,  cust |-> 1, at |-> Clock(0, 5, 59, 59),  class |-> 1, score |-> F0],
       [amount |-> 1000, cust |-> 1, at |-> Clock(0, 5, 59, 59),  class |-> 1, score |-> F1],
       [amount |-> 2999, cust |-> 1, at |-> Clock(0, 5, 59, 59),  class |-> 0, score |-> F0],
       [amount |-> 3000, cust |-> 1, at |-> Clock(0, 5, 59, 59),  class |-> 1, score |-> F1],
       [amount |-> 3000, cust |-> 1, at |-> Clock(1, 6, 0, 0),    class |-> 1, score |-> F1],
       [amount |-> 199,  cust |-> 1, at |-> Clock(1, 6, 0, 0),    class |-> 0, score |-> F0],
       [amount |-> 3000, cust |-> 2, at |-> Clock(0, 5, 59, 59),  class |-> 1, score |-> F1],
       [amount |-> 3000, cust |-> 2, at |-> Clock(1, 6, 0, 0),    class |-> 0, score |-> F0],
       [amount |-> 1000, cust |-> 2, at |-> Clock(2, 0, 0, 0),    class |-> 0, score |-> F1],
       [amount |-> 1000, cust |-> 1, at |-> Clock(2, 23, 59, 59), class |-> 0, score |-> F0] >>

FillRow == [amount |-> 3000, cust |-> 1, at |-> Clock(0, 5, 59, 59), class |-> 1, score |-> F1]

MkScoredRow(cols, p, label) ==
    [idx |-> label,
     na  |-> {},
     v   |-> [c \in cols |->
                CASE c = "Amount"           -> p.amount
                  [] c = "customer_id"      -> customers[p.cust]
                  [] c = "transaction_time" -> p.at
                  [] c = "Class"            -> p.class
                  [] c = "final_risk_score" -> p.score]]

MkScoredTable(hasTime, ks, fill) ==
    LET cols == {"Amount", "customer_id", "Class", "final_risk_score"}
                \cup (IF hasTime THEN {"transaction_time"} ELSE {})
    IN  [cols |-> cols,
         rows |-> [i \in 1..(Len(ks) + fill) |->
                     MkScoredRow(cols,
                                 IF i <= Len(ks) THEN ProbeRows[ks[i]] ELSE FillRow,
                                 i - 1)]]

ScoredTables ==
    {MkScoredTable(hasTime, ks, fill) :
        hasTime \in BOOLEAN,
        ks \in SeqsUpTo(1..Len(ProbeRows), MaxProbes) \ {<< >>},
        fill \in {0, MaxFill - 1, MaxFill}}

\* three early-morning transactions of one customer, at 50, 1500 and 4000
ScenarioRows ==
    << [amount |-> 50,   cust |-> 1, at |-> Clock(0, 1, 0, 0), class |-> 0, score |-> F0],
       [amount |-> 1500, cust |-> 1, at |-> Clock(0, 2, 0, 0), class |-> 1, score |-> F0],
       [amount |-> 4000, cust |-> 1, at |-> Clock(1, 3, 0, 0), class |-> 1, score |-> F0] >>

ScenarioTable ==
    LET cols == {"Amount", "customer_id", "Class", "final_risk_score", "transaction_time"}
    IN  [cols |-> cols,
         rows |-> [i \in 1..Len(ScenarioRows) |-> MkScoredRow(cols, ScenarioRows[i], i - 1)]]

(***************************************************************************)
(* The enriched tables the scoring and the metrics are called on directly:  *)
(* up to MaxDash transactions of three merchants on three days, among them  *)
(* off-hours amounts 50, 1500 and 4000 of one customer, the last second of  *)
(* a day and the first of the next; single transactions also without the    *)
(* timestamp column.  The P(fraud) column a caller scores                   *)
(* them with is 0 throughout, or one of the two threshold-hitting values.   *)
(***************************************************************************)
MaxDash == 3

DashRows ==
    << [time |-> 3600,   amount |-> 50,   class |-> 0, merchant |-> 1, cust |-> 1],
       [time |-> 86400,  amount |-> 1500, class |-> 1, merchant |-> 1, cust |-> 1],
       [time |-> 180000, amount |-> 4000, class |-> 1, merchant |-> 2, cust |-> 1],
       [time |-> 86399,  amount |-> 50,   class |-> 0, merchant |-> 2, cust |-> 2],
       [time |-> 216000, amount |-> 250,  class |-> 0, merchant |-> 3, cust |-> 2] >>

DashColumns == {"Time", "Amount", "Class", "merchant_id", "customer_id"}

\* the table before _add_transaction_time gave it its timestamps
MkDashRows(ks) ==
        [cols |-> DashColumns,
         rows |-> [i \in 1..Len(ks) |->
                     [idx |-> i - 1,
                      na  |-> {},
                      v   |-> [c \in DashColumns |->
                                 CASE c = "Time"        -> DashRows[ks[i]].time
                                   [] c = "Amount"      -> DashRows[ks[i]].amount
                                   [] c = "Class"       -> DashRows[ks[i]].class
                                   [] c = "merchant_id" -> merchants[DashRows[ks[i]].merchant]
                                   [] c = "customer_id" -> customers[DashRows[ks[i]].cust]]]]]

\* with the timestamp column, and (single rows only) without it
DashTables ==
    {_add_transaction_time(MkDashRows(ks)) : ks \in SeqsUpTo(1..Len(DashRows), MaxDash)}
    \cup {MkDashRows(ks) : ks \in SeqsUpTo(1..Len(DashRows), 1) \ {<< >>}}

MlChoices == ProbVals \ {F1}

\* the thresholds a caller asks the high-risk views for: the default 0.70, and
\* 0.40 and 0.28
Thresholds == {FromDecimal(70, 2), FromDecimal(40, 2), FromDecimal(28, 2)}

(***************************************************************************)
(* The metrics snapshots generate_insights is called on directly: every     *)
(* subset of the four keys it reads, fraud rates and mean risks on and      *)
(* next to the severity thresholds, an empty and a one-row ranking, and     *)
(* trends of up to MaxPoints daily points around a 10% rise or fall.        *)
(***************************************************************************)
MaxPoints == 4

InsightKeys == {"fraud_rate", "avg_risk", "merchant_ranking", "daily_risk_trend"}

RateVals == {F0, FromDecimal(100, 4), FromDecimal(101, 4), FromDecimal(500, 4),
             FromDecimal(501, 4), F1}

RiskVals == {F0, FromDecimal(4000, 4), FromDecimal(4001, 4), FromDecimal(7000, 4),
             FromDecimal(7001, 4), F1}

\* the values of the trends one point longer than MaxPoints
LongTrendVals == {FromDecimal(2100, 4), FromDecimal(3900, 4)}

TrendVals == {FromDecimal(2100, 4), FromDecimal(2700, 4), FromDecimal(3000, 4),
              FromDecimal(3900, 4), FromDecimal(3901, 4)}

RankingColumns ==
    <<"merchant_id", "total_transactions", "avg_risk", "fraud_count", "avg_amount",
      "fraud_rate">>

OneRowRanking ==
    [columns |-> RankingColumns,
     rows |-> <<[merchant_id |-> merchants[1], total_transactions |-> 3,
                 avg_risk |-> FromDecimal(7000, 4), fraud_count |-> 1,
                 avg_amount |-> FromDecimal(5000, 2),
                 fraud_rate |-> FromDecimal(3333, 4)]>>]

RankingVals == {[columns |-> RankingColumns, rows |-> << >>], OneRowRanking}

MkTrend(avgs) ==
    [columns |-> <<"date", "avg_risk", "fraud_count", "transaction_count">>,
     rows |-> [i \in 1..Len(avgs) |->
                 [date |-> i - 1, avg_risk |-> avgs[i], fraud_count |-> 0,
                  transaction_count |-> 1]]]

\* a dict with the given keys
MkSnapshot(keys, fr, ar, ranking, trend) ==
    [k \in keys |->
        CASE k = "fraud_rate"       -> fr
          [] k = "avg_risk"         -> ar
          [] k = "merchant_ranking" -> ranking
          [] k = "daily_risk_trend" -> trend]

(***************************************************************************)
(* State.  file is the dataset at the path given to run; pc, raw, ...,      *)
(* scored are the position and the locals of one run of pipeline.run; out   *)
(* is stdout; error is the exception that left run.  table and calls are a  *)
(* caller's table and the calls it made on it to the public functions,      *)
(* each with its argument and result.  rng is the generator the latest      *)
(* enrich_schema call created.                                              *)
(***************************************************************************)
VARIABLES file, pc, raw, cleaned, enriched, X, y, ml_probs, rule_risk, scored,
          error, out, rng, table, calls

vars == <<file, pc, raw, cleaned, enriched, X, y, ml_probs, rule_risk, scored,
          error, out, rng, table, calls>>

runVars == <<file, pc, raw, cleaned, enriched, X, y, ml_probs, rule_risk, scored,
             error, out>>

Raise(type, origin, missing) == [type |-> type, origin |-> origin, missing |-> missing]
NoException == Raise("none", "none", {})

NotStarted(p) ==
    /\ pc = p
    /\ raw = NoTable /\ cleaned = NoTable /\ enriched = NoTable
    /\ X = NoTable /\ y = << >> /\ ml_probs = << >> /\ rule_risk = << >>
    /\ scored = NoTable
    /\ error = NoException
    /\ out = << >>
    /\ rng = NoRng

Init ==
    /\ file \in Files
    /\ NotStarted("start")
    /\ table = NoTable
    /\ calls = << >>

\* load_raw(path)
load_raw(f) ==
    IF ~f.exists
    THEN [raised |-> TRUE, df |-> NoTable, printed |-> << >>]
    ELSE [raised |-> FALSE, df |-> f.table,
          printed |-> <<Line("[Pipeline] Loaded raw records", Len(f.table.rows))>>]

\* Stage 1
Load ==
    /\ pc = "start"
    /\ LET r == load_raw(file) IN
       IF r.raised
       THEN /\ pc' = "failed"
            /\ error' = Raise("FileNotFoundError", "load_raw", {})
            /\ UNCHANGED <<raw, out>>
       ELSE /\ pc' = "loaded"
            /\ raw' = r.df
            /\ out' = out \o r.printed
            /\ UNCHANGED error
    /\ UNCHANGED <<file, cleaned, enriched, X, y, ml_probs, rule_risk, scored, rng,
                   table, calls>>

\* Stage 2
Govern ==
    /\ pc = "loaded"
    /\ LET r == clean(raw) IN
       IF r.raised
       THEN /\ pc' = "failed"
            /\ error' = Raise("ValueError", "governance._validate_schema", r.missing)
            /\ out' = out \o r.printed
            /\ UNCHANGED cleaned
       ELSE /\ pc' = "cleaned"
            /\ cleaned' = r.df
            /\ out' = out \o r.printed
            /\ UNCHANGED error
    /\ UNCHANGED <<file, raw, enriched, X, y, ml_probs, rule_risk, scored, rng,
                   table, calls>>

\* Stage 3
Enrich ==
    /\ pc = "cleaned"
    /\ LET r == enrich_schema(cleaned, rng) IN
       /\ enriched' = r.df
       /\ rng' = r.g
    /\ cleaned' = enrich_schema_argument(cleaned, rng)
    /\ pc' = "enriched"
    /\ UNCHANGED <<file, raw, X, y, ml_probs, rule_risk, scored, error, out,
                   table, calls>>

\* Stage 4
Features ==
    /\ pc = "enriched"
    /\ LET r == build_feature_matrix(enriched) IN
       IF r.raised
       THEN /\ pc' = "failed"
            /\ error' = Raise("ValueError", "StandardScaler.fit_transform", {})
            /\ UNCHANGED <<X, y>>
       ELSE /\ pc' = "features"
            /\ X' = r.X
            /\ y' = r.y
            /\ UNCHANGED error
    /\ enriched' = build_feature_matrix_argument(enriched)
    /\ UNCHANGED <<file, raw, cleaned, ml_probs, rule_risk, scored, out, rng,
                   table, calls>>

\* Stage 5: train_and_score(X, y)
Model ==
    /\ pc = "features"
    /\ IF train(X, y).raised
       THEN /\ pc' = "failed"
            /\ error' = Raise("ValueError", "LogisticRegression.fit", {})
            /\ UNCHANGED <<ml_probs, out>>
       ELSE /\ \E clf \in [{X.rows[i].v : i \in 1..Len(X.rows)} -> ProbVals] :
                 ml_probs' = predict_fraud_probability(clf, X)
            /\ pc' = "modelled"
            /\ out' = out \o <<Line("[FraudModel] Trained on samples", Len(X.rows))>>
            /\ UNCHANGED error
    /\ UNCHANGED <<file, raw, cleaned, enriched, X, y, rule_risk, scored, rng,
                   table, calls>>

\* Stage 6
Rules ==
    /\ pc = "modelled"
    /\ rule_risk' = apply_rules(enriched)
    /\ pc' = "ruled"
    /\ UNCHANGED <<file, raw, cleaned, enriched, X, y, ml_probs, scored, error, out, rng,
                   table, calls>>

\* Stage 7
Score ==
    /\ pc = "ruled"
    /\ LET ml_probability == MakeSeries(ml_probs, Index(enriched))
           r == score_transactions(enriched, rule_risk, ml_probability)
       IN  /\ IF r.raised
              THEN /\ pc' = "failed"
                   /\ error' = Raise("ValueError", "score_transactions", {})
                   /\ UNCHANGED <<scored, out>>
              ELSE /\ pc' = "done"
                   /\ scored' = r.df
                   /\ out' = out \o <<Line("[Pipeline] Complete", Len(r.df.rows))>>
                   /\ UNCHANGED error
           /\ enriched' = score_transactions_argument(enriched, rule_risk, ml_probability)
    /\ UNCHANGED <<file, raw, cleaned, X, y, ml_probs, rule_risk, rng,
                   table, calls>>

Next == Load \/ Govern \/ Enrich \/ Features \/ Model \/ Rules \/ Score

Spec == Init /\ [][Next]_vars

(***************************************************************************)
(* The public functions called directly on a caller's table.  governance    *)
(* .clean is called on a raw table and again on its own result;             *)
(* enrich_schema on a cleaned table, repeatedly; apply_rules and            *)
(* daily_risk_trend on a scored table, the trend insight on the trend.      *)
(***************************************************************************)
Call(op, arg, ret) == [op |-> op, arg |-> arg, ret |-> ret]

Last == calls[Len(calls)]

InitApi ==
    /\ file = NoFile
    /\ NotStarted("idle")
    /\ table \in RawTables \cup ScoredTables \cup {ScenarioTable}
    /\ calls = << >>

\* a table as read from a dataset file, not yet scored
IsRaw == "final_risk_score" \notin table.cols

CallClean ==
    /\ IsRaw
    /\ \/ calls = << >> /\ calls' = <<Call("clean", table, clean(table))>>
       \/ /\ Len(calls) = 1 /\ Last.op = "clean" /\ ~Last.ret.raised
          /\ calls' = Append(calls, Call("clean", Last.ret.df, clean(Last.ret.df)))
    /\ UNCHANGED <<runVars, rng, table>>

CallEnrich ==
    /\ IsRaw
    /\ Len(calls) \in 1..2
    /\ calls[1].op = "clean" /\ ~calls[1].ret.raised
    /\ Len(calls) = 2 => Last.op = "enrich_schema"
    /\ LET r == enrich_schema(calls[1].ret.df, rng) IN
       /\ calls' = Append(calls, Call("enrich_schema", calls[1].ret.df, r.df))
       /\ rng' = r.g
    /\ UNCHANGED <<runVars, table>>

CallApplyRules ==
    /\ ~IsRaw
    /\ calls = << >>
    /\ calls' = <<Call("apply_rules", table, apply_rules(table))>>
    /\ UNCHANGED <<runVars, rng, table>>

\* score_transactions on the rule scores just computed and a P(fraud) column
CallScore ==
    /\ Len(calls) = 1 /\ Last.op = "apply_rules"
    /\ \E p \in MlChoices :
         LET ml == MakeSeries([i \in 1..Len(table.rows) |-> p], Index(table))
         IN  calls' = Append(calls,
                 Call("score_transactions",
                      [df |-> table, rule_risk |-> Last.ret, ml_probability |-> ml],
                      score_transactions(table, Last.ret, ml)))
    /\ UNCHANGED <<runVars, rng, table>>

CallDailyTrend ==
    /\ ~IsRaw
    /\ calls = << >>
    /\ calls' = <<Call("daily_risk_trend", table, daily_risk_trend(table))>>
    /\ UNCHANGED <<runVars, rng, table>>

CallTrendInsight ==
    /\ Len(calls) = 1 /\ Last.op = "daily_risk_trend"
    /\ calls' = Append(calls, Call("_insight_risk_trend", Last.ret,
                                   _insight_risk_trend(Last.ret)))
    /\ UNCHANGED <<runVars, rng, table>>

NextApi ==
    CallClean \/ CallEnrich \/ CallApplyRules \/ CallScore \/ CallDailyTrend \/ CallTrendInsight

SpecApi == InitApi /\ [][NextApi]_vars

(***************************************************************************)
(* A dashboard session on an enriched table: the rule engine, then          *)
(* score_transactions with the caller's P(fraud) column, then the metrics   *)
(* and the insights on the scored table; or generate_insights on a metrics  *)
(* snapshot the caller holds.                                               *)
(***************************************************************************)
InitDash ==
    /\ file = NoFile
    /\ NotStarted("dash")
    /\ calls = << >>
    /\ \/ table \in DashTables
       \/ \E keys \in SUBSET InsightKeys, fr \in RateVals, ar \in RiskVals :
            table = MkSnapshot(keys, fr, ar, OneRowRanking,
                               MkTrend(<<FromDecimal(3000, 4), FromDecimal(3900, 4)>>))
       \/ \E rk \in RankingVals, avgs \in SeqsUpTo(TrendVals, MaxPoints) :
            table = MkSnapshot(InsightKeys, F0, F0, rk, MkTrend(avgs))
       \/ \E avgs \in [1..(MaxPoints + 1) -> LongTrendVals] :
            table = MkSnapshot(InsightKeys, F0, F0, OneRowRanking, MkTrend(avgs))

IsSnapshot == "cols" \notin DOMAIN table

\* the scored table of the session, once score_transactions has returned it
Scored == calls[2].ret.df

DashApplyRules ==
    /\ ~IsSnapshot
    /\ calls = << >>
    /\ calls' = <<Call("apply_rules", table, apply_rules(table))>>
    /\ UNCHANGED <<runVars, rng, table>>

DashScore ==
    /\ Len(calls) = 1 /\ Last.op = "apply_rules"
    /\ \E p \in MlChoices :
         LET ml == MakeSeries([i \in 1..Len(table.rows) |-> p], Index(table))
         IN  calls' = Append(calls,
                 Call("score_transactions",
                      [df |-> table, rule_risk |-> Last.ret, ml_probability |-> ml],
                      score_transactions(table, Last.ret, ml)))
    /\ UNCHANGED <<runVars, rng, table>>

DashMerchantRanking ==
    /\ Len(calls) = 2 /\ Last.op = "score_transactions"
    /\ \E order \in ranking_orders(Scored) :
         calls' = Append(calls, Call("merchant_ranking", Scored,
                                     merchant_ranking(Scored, order)))
    /\ UNCHANGED <<runVars, rng, table>>

DashHighRiskCount ==
    /\ Len(calls) = 2 /\ Last.op = "score_transactions"
    /\ \E threshold \in Thresholds :
         calls' = Append(calls, Call("high_risk_count",
                                     [df |-> Scored, threshold |-> threshold],
                                     high_risk_count(Scored, threshold)))
    /\ UNCHANGED <<runVars, rng, table>>

DashHighRiskTransactions ==
    /\ Len(calls) = 3 /\ Last.op = "high_risk_count"
    /\ \E order \in high_risk_orders(Scored, Last.arg.threshold) :
         calls' = Append(calls, Call("high_risk_transactions", Last.arg,
                     high_risk_transactions(Scored, Last.arg.threshold, order)))
    /\ UNCHANGED <<runVars, rng, table>>

DashDailyTrend ==
    /\ Len(calls) = 2 /\ Last.op = "score_transactions"
    /\ calls' = Append(calls, Call("daily_risk_trend", Scored, daily_risk_trend(Scored)))
    /\ UNCHANGED <<runVars, rng, table>>

DashAiInsights ==
    /\ Len(calls) = 2 /\ Last.op = "score_transactions"
    /\ \E ro \in ranking_orders(Scored),
          ho \in high_risk_orders(Scored, FromDecimal(70, 2)) :
         calls' = Append(calls, Call("get_ai_insights", Scored,
                     get_ai_insights(Scored, FromDecimal(70, 2), ro, ho)))
    /\ UNCHANGED <<runVars, rng, table>>

DashGenerateInsights ==
    /\ IsSnapshot
    /\ calls = << >>
    /\ calls' = <<Call("generate_insights", table, generate_insights(table))>>
    /\ UNCHANGED <<runVars, rng, table>>

NextDash ==
    \/ DashApplyRules \/ DashScore \/ DashMerchantRanking \/ DashHighRiskCount
    \/ DashHighRiskTransactions \/ DashDailyTrend \/ DashAiInsights
    \/ DashGenerateInsights

SpecDash == InitDash /\ [][NextDash]_vars
(***************************************************************************)
(* Properties.  The expected values are written out from the documented     *)
(* contract (weights 0.35 / 0.65, thresholds 0.40 / 0.70, tiers 200 / 1000  *)
(* / 3000, cutoff 10, hours 0..5, the 31 columns, the two identifier        *)
(* pools), not from the definitions above.                                  *)
(***************************************************************************)
InUnit(x) == FGe(x, F0) /\ FLe(x, F1)

Min1(x) == IF FLt(F1, x) THEN F1 ELSE x

\* C1: in the table a run returns, every row's final_risk_score is
\* clip(0.35 * rule_risk + 0.65 * ml_probability, 0, 1) of the rule score and the
\* probability of that same row (whatever labels governance left in the index),
\* it lies in [0, 1], and for inputs in [0, 1] the clip leaves the sum as it is.
C1_HybridScorePerRow ==
    pc = "done" =>
      /\ Len(scored.rows) = Len(enriched.rows)
      /\ \A i \in 1..Len(scored.rows) :
           LET row == scored.rows[i]
               r   == row.v["rule_risk"]
               p   == row.v["ml_probability"]
               s   == row.v["final_risk_score"]
               sum == FAdd(FMul(FromDecimal(35, 2), r), FMul(FromDecimal(65, 2), p))
           IN  /\ row.idx = enriched.rows[i].idx
               /\ X.rows[i].idx = row.idx
               /\ \E k \in 1..Len(rule_risk) :
                      rule_risk[k].idx = row.idx /\ rule_risk[k].val = r
               /\ p = ml_probs[i]
               /\ FEq(s, FClip(sum, F0, F1))
               /\ InUnit(s)
               /\ (InUnit(r) /\ InUnit(p)) => FEq(FClip(sum, F0, F1), sum)

\* a finished run whose index has a gap and whose rows differ in rule score,
\* probability and final score
C1_Witness ==
    /\ pc = "done"
    /\ \E i \in 1..Len(scored.rows) : scored.rows[i].idx # i - 1
    /\ \E i, j \in 1..Len(scored.rows) :
          /\ scored.rows[i].v["rule_risk"] # scored.rows[j].v["rule_risk"]
          /\ scored.rows[i].v["ml_probability"] # scored.rows[j].v["ml_probability"]
          /\ scored.rows[i].v["final_risk_score"] # scored.rows[j].v["final_risk_score"]

\* C2: every row of the returned table carries exactly one of HIGH, MEDIUM, LOW,
\* decided by its final_risk_score alone: HIGH iff score >= 0.70, MEDIUM iff
\* 0.40 <= score < 0.70, LOW iff score < 0.40; a score equal to a threshold gets
\* the higher tier.
C2_RiskLabelLadder ==
    pc = "done" =>
      \A i \in 1..Len(scored.rows) :
        LET s == scored.rows[i].v["final_risk_score"]
            l == scored.rows[i].v["risk_label"]
        IN  /\ l \in {"HIGH", "MEDIUM", "LOW"}
            /\ (l = "HIGH")   <=> FGe(s, FromDecimal(70, 2))
            /\ (l = "MEDIUM") <=> (FGe(s, FromDecimal(40, 2)) /\ FLt(s, FromDecimal(70, 2)))
            /\ (l = "LOW")    <=> FLt(s, FromDecimal(40, 2))
            /\ \A j \in 1..Len(scored.rows) :
                  scored.rows[j].v["final_risk_score"] = s
                     => scored.rows[j].v["risk_label"] = l

\* a finished run with one row exactly on 0.40 (MEDIUM) and one exactly on 0.70 (HIGH)
C2_Witness ==
    /\ pc = "done"
    /\ \E i, j \in 1..Len(scored.rows) :
          /\ FEq(scored.rows[i].v["final_risk_score"], FromDecimal(4, 1))
          /\ scored.rows[i].v["risk_label"] = "MEDIUM"
          /\ FEq(scored.rows[j].v["final_risk_score"], FromDecimal(7, 1))
          /\ scored.rows[j].v["risk_label"] = "HIGH"

ExpectedTier(amount) ==
    IF amount < 200 THEN F0
    ELSE IF amount < 1000 THEN FromDecimal(2, 1)
    ELSE IF amount < 3000 THEN FromDecimal(4, 1)
    ELSE FromDecimal(6, 1)

CustomerCount(df, i) ==
    Cardinality({j \in 1..Len(df.rows) :
                    df.rows[j].v["customer_id"] = df.rows[i].v["customer_id"]})

ExpectedVelocity(df, i) == IF CustomerCount(df, i) >= 10 THEN FromDecimal(2, 1) ELSE F0

HourOfDay(df, i) == (df.rows[i].v["transaction_time"].secs \div 60) \div 60

ExpectedOffHours(df, i) ==
    IF HourOfDay(df, i) \in 0..5 THEN FromDecimal(2, 1) ELSE F0

RuleCalls == {k \in 1..Len(calls) : calls[k].op = "apply_rules"}

\* C3: apply_rules gives every row of its table min(1.0, A + V + O): A the one
\* amount tier the row reaches (0 / 0.2 / 0.4 / 0.6 at 200 / 1000 / 3000), V 0.2
\* iff at least 10 rows of the table carry the row's customer_id, O 0.2 iff the
\* hour of transaction_time is in 0..5.
C3_RuleScore ==
    \A k \in RuleCalls :
      LET df == calls[k].arg
          rr == calls[k].ret
      IN  "transaction_time" \in df.cols =>
            /\ Len(rr) = Len(df.rows)
            /\ \A i \in 1..Len(rr) :
                 /\ rr[i].idx = df.rows[i].idx
                 /\ FEq(rr[i].val,
                        Min1(FAdd(FAdd(ExpectedTier(df.rows[i].v["Amount"]),
                                       ExpectedVelocity(df, i)),
                                  ExpectedOffHours(df, i))))

\* apply_rules was called on a table where a customer has exactly 10 rows, one
\* of them at 1000 in hour 5, and another customer has fewer
C3_Witness ==
    \E k \in RuleCalls :
      LET df == calls[k].arg IN
      /\ "transaction_time" \in df.cols
      /\ \E i, j \in 1..Len(df.rows) :
            /\ CustomerCount(df, i) = 10
            /\ df.rows[i].v["Amount"] = 1000
            /\ HourOfDay(df, i) = 5
            /\ CustomerCount(df, j) < 10

SameMoment(df, i, j) ==
    "transaction_time" \in df.cols =>
        df.rows[i].v["transaction_time"] = df.rows[j].v["transaction_time"]

AllThreeFire(df, i) ==
    /\ df.rows[i].v["Amount"] >= 3000
    /\ CustomerCount(df, i) >= 10
    /\ "transaction_time" \in df.cols
    /\ HourOfDay(df, i) \in 0..5

\* C4: the rule score never falls when only the amount grows, nor when only the
\* customer's number of rows grows; it is always within [0, 1]; and it is exactly
\* 1.0 when amount >= 3000, customer count >= 10 and hour in 0..5 hold together.
C4_RuleScoreMonotone ==
    \A k \in RuleCalls :
      LET df == calls[k].arg
          rr == calls[k].ret
      IN  \A i \in 1..Len(rr) :
            /\ InUnit(rr[i].val)
            /\ AllThreeFire(df, i) => FEq(rr[i].val, F1)
            /\ \A j \in 1..Len(rr) :
                 /\ ( /\ df.rows[i].v["customer_id"] = df.rows[j].v["customer_id"]
                      /\ SameMoment(df, i, j)
                      /\ df.rows[i].v["Amount"] <= df.rows[j].v["Amount"] )
                    => FLe(rr[i].val, rr[j].val)
                 /\ ( /\ df.rows[i].v["Amount"] = df.rows[j].v["Amount"]
                      /\ SameMoment(df, i, j)
                      /\ CustomerCount(df, i) <= CustomerCount(df, j) )
                    => FLe(rr[i].val, rr[j].val)

\* one table holding a pair of rows that differ only in amount, a pair that
\* differ only in the customer's count (below and at the cutoff), and a row on
\* which all three signals fire
C4_Witness ==
    \E k \in RuleCalls :
      LET df == calls[k].arg IN
      \E i, j, l \in 1..Len(df.rows) :
        /\ AllThreeFire(df, i)
        /\ df.rows[j].v["customer_id"] = df.rows[i].v["customer_id"]
        /\ SameMoment(df, i, j)
        /\ df.rows[j].v["Amount"] < df.rows[i].v["Amount"]
        /\ df.rows[l].v["Amount"] = df.rows[i].v["Amount"]
        /\ SameMoment(df, i, l)
        /\ CustomerCount(df, l) < 10

CleanCalls == {k \in 1..Len(calls) : calls[k].op = "clean"}

\* Time, Amount, Class, V1 .. V28
Required31 == {"Time", "Amount", "Class"} \cup {VNames[i] : i \in 1..Len(VNames)}

ValidRow(r) ==
    /\ r.na = {}
    /\ r.v["Amount"] >= 0 /\ r.v["Amount"] <= 50000
    /\ r.v["Class"] \in {0, 1}

\* C6: for an input with all required columns, the rows clean returns are input
\* rows (label and cells unchanged, in input order), each without missing value,
\* with 0 <= Amount <= 50000 and Class in {0, 1}; no two are equal; and every
\* valid input row is equal to one of them.
C6_CleanKeepsExactlyValidDistinct ==
    \A k \in CleanCalls :
      LET t   == calls[k].arg
          r   == calls[k].ret
          o   == r.df.rows
      IN  ~r.raised =>
            /\ \A a \in 1..Len(o) :
                 /\ ValidRow(o[a])
                 /\ \E i \in 1..Len(t.rows) : t.rows[i] = o[a]
                 /\ \A b \in 1..Len(o) : a # b => o[a].v # o[b].v
                 /\ \A b \in 1..Len(o) : a < b => o[a].idx < o[b].idx
            /\ \A i \in 1..Len(t.rows) :
                 ValidRow(t.rows[i]) => \E a \in 1..Len(o) : o[a].v = t.rows[i].v

\* clean was called on a table with two equal valid rows (at the ceiling 50000)
\* and an invalid row, and returned one row
C6_Witness ==
    \E k \in CleanCalls :
      LET t == calls[k].arg IN
      /\ ~calls[k].ret.raised
      /\ Len(calls[k].ret.df.rows) = 1
      /\ \E i, j, l \in 1..Len(t.rows) :
            /\ i < j /\ t.rows[i].v = t.rows[j].v /\ ValidRow(t.rows[i])
            /\ t.rows[i].v["Amount"] = 50000
            /\ ~ValidRow(t.rows[l])

\* C7: clean applied to its own result returns the same rows, and none of its
\* stages reports a removed row.
C7_CleanIdempotent ==
    (Len(calls) = 2 /\ calls[1].op = "clean" /\ calls[2].op = "clean") =>
      /\ calls[2].arg = calls[1].ret.df
      /\ ~calls[2].ret.raised
      /\ calls[2].ret.df = calls[1].ret.df
      /\ calls[2].ret.printed =
            <<Line("[Governance] Validation complete", Len(calls[1].ret.df.rows))>>

\* clean ran twice, the first time on three equal rows of which it kept one
C7_Witness ==
    /\ Len(calls) = 2 /\ calls[1].op = "clean" /\ calls[2].op = "clean"
    /\ Len(table.rows) = 3
    /\ table.rows[1].v = table.rows[2].v /\ table.rows[2].v = table.rows[3].v
    /\ Len(calls[2].ret.df.rows) = 1

\* C8 (as stated): a run fails only because the file is absent or a required
\* column is absent; with the file present and all required columns in it the
\* run reaches the end of stage 7.
C8_FailsOnlyForFileOrSchema ==
    pc = "failed" =>
       \/ ~file.exists /\ error.origin = "load_raw"
       \/ /\ file.exists
          /\ \E c \in Required31 : c \notin file.table.cols
          /\ error.origin = "governance._validate_schema"

\* a run on a file with all required columns that ended in an exception of
\* LogisticRegression.fit: the rows that survived cleaning are all of one class
C8_Witness ==
    /\ pc = "failed"
    /\ file.exists
    /\ Required31 \subseteq file.table.cols
    /\ error.origin = "LogisticRegression.fit"
    /\ Len(cleaned.rows) >= 2

\* C9: on a table without transaction_time, apply_rules gives every row
\* min(1, amount tier + velocity), daily_risk_trend returns zero rows under the
\* columns date, avg_risk, fraud_count, transaction_count, and the trend insight
\* is the fixed insufficient-data message.
C9_AbsentTimestampDegrades ==
    (~IsRaw /\ "transaction_time" \notin table.cols) =>
      \A k \in 1..Len(calls) :
        LET c == calls[k] IN
        /\ c.op = "apply_rules" =>
             /\ Len(c.ret) = Len(table.rows)
             /\ \A i \in 1..Len(c.ret) :
                  FEq(c.ret[i].val,
                      Min1(FAdd(ExpectedTier(table.rows[i].v["Amount"]),
                                ExpectedVelocity(table, i))))
        /\ c.op = "daily_risk_trend" =>
             /\ c.ret.rows = << >>
             /\ c.ret.columns = <<"date", "avg_risk", "fraud_count", "transaction_count">>
        /\ c.op = "_insight_risk_trend" =>
             /\ c.ret.text = "Insufficient time-series data for trend analysis."
             /\ c.ret.args = << >>

\* the trend and its insight were computed for a table of 10 or more rows that
\* has no transaction_time
C9_Witness ==
    /\ ~IsRaw /\ "transaction_time" \notin table.cols
    /\ Len(table.rows) >= 10
    /\ Len(calls) = 2
    /\ calls[1].op = "daily_risk_trend" /\ calls[2].op = "_insight_risk_trend"

MerchantPool == {<<"MRC_", 0, i \div 10, i % 10>> : i \in 1..20}

CustomerPool == {<<"CUST_", 0, i \div 100, (i \div 10) % 10, i % 10>> : i \in 1..200}

EnrichCalls == {k \in 1..Len(calls) : calls[k].op = "enrich_schema"}

\* C10: enrich_schema gives every row one merchant_id of MRC_001 .. MRC_020 and
\* one customer_id of CUST_0001 .. CUST_0200, and any two calls on the same
\* cleaned table return the same assignments row by row.
C10_EnrichDeterministic ==
    /\ Cardinality(MerchantPool) = 20 /\ Cardinality(CustomerPool) = 200
    /\ \A k \in EnrichCalls :
         LET t == calls[k].arg
             e == calls[k].ret
         IN  /\ Len(e.rows) = Len(t.rows)
             /\ {"merchant_id", "customer_id"} \subseteq e.cols
             /\ \A i \in 1..Len(e.rows) :
                  /\ e.rows[i].idx = t.rows[i].idx
                  /\ e.rows[i].v["merchant_id"] \in MerchantPool
                  /\ e.rows[i].v["customer_id"] \in CustomerPool
             /\ \A l \in EnrichCalls :
                  calls[l].arg = t =>
                     \A i \in 1..Len(e.rows) :
                        /\ calls[l].ret.rows[i].v["merchant_id"] = e.rows[i].v["merchant_id"]
                        /\ calls[l].ret.rows[i].v["customer_id"] = e.rows[i].v["customer_id"]

\* enrich_schema was called twice on the same cleaned table of two or more rows
C10_Witness ==
    /\ Cardinality(EnrichCalls) = 2
    /\ \A k \in EnrichCalls : Len(calls[k].ret.rows) >= 2

(***************************************************************************)
(* Properties of the metrics and the insights.                              *)
(***************************************************************************)
RankingCalls == {k \in 1..Len(calls) : calls[k].op = "merchant_ranking"}

RECURSIVE SumOver(_, _)
SumOver(rows, field) ==
    IF rows = << >> THEN 0 ELSE Head(rows)[field] + SumOver(Tail(rows), field)

\* the double nearest to n / d rounded half-even to the given number of decimals
RoundedRatio(n, d, places) ==
    LET q   == (n * 10^places) \div d
        rem == (n * 10^places) % d
    IN  FromDecimal(IF 2 * rem > d \/ (2 * rem = d /\ q % 2 = 1) THEN q + 1 ELSE q, places)

\* one row per merchant present; the counts add up to the table's
RankingPartitions(t, ret) ==
    /\ {ret.rows[i].merchant_id : i \in 1..Len(ret.rows)}
         = {t.rows[i].v["merchant_id"] : i \in 1..Len(t.rows)}
    /\ \A i, j \in 1..Len(ret.rows) :
         ret.rows[i].merchant_id = ret.rows[j].merchant_id => i = j
    /\ SumOver(ret.rows, "fraud_count")
         = Cardinality({i \in 1..Len(t.rows) : t.rows[i].v["Class"] = 1})
    /\ SumOver(ret.rows, "total_transactions") = Len(t.rows)

\* C11 as stated: merchant_ranking returns one row per distinct merchant_id, its
\* fraud_count sums to the number of Class = 1 rows, its total_transactions to
\* the number of rows, and each row's fraud_rate equals fraud_count /
\* total_transactions.
C11_FraudRateIsQuotient ==
    \A k \in RankingCalls :
       LET t == calls[k].arg
           ret == calls[k].ret
       IN  /\ RankingPartitions(t, ret)
           /\ \A i \in 1..Len(ret.rows) :
                /\ FEq(ret.rows[i].fraud_rate,
                       FDivSmall(FromInt(ret.rows[i].fraud_count),
                                 ret.rows[i].total_transactions))
                /\ InUnit(ret.rows[i].fraud_rate)

\* C11 amended: the same, with each row's fraud_rate equal to fraud_count /
\* total_transactions rounded to 4 decimal places (so still within [0, 1]).
C11_FraudRateIsRoundedQuotient ==
    \A k \in RankingCalls :
       LET t == calls[k].arg
           ret == calls[k].ret
       IN  /\ RankingPartitions(t, ret)
           /\ \A i \in 1..Len(ret.rows) :
                /\ ret.rows[i].total_transactions > 0
                /\ FEq(ret.rows[i].fraud_rate,
                       RoundedRatio(ret.rows[i].fraud_count,
                                    ret.rows[i].total_transactions, 4))
                /\ InUnit(ret.rows[i].fraud_rate)

\* a ranking was computed that has a merchant with 1 fraud among 3 transactions
C11_Witness ==
    \E k \in RankingCalls :
       \E i \in 1..Len(calls[k].ret.rows) :
          /\ calls[k].ret.rows[i].total_transactions = 3
          /\ calls[k].ret.rows[i].fraud_count = 1


\* the mean final risk score of a merchant's rows in t, before any rounding
MerchantMean(t, id) ==
    LET own == SelectSeq(t.rows, LAMBDA r : r.v["merchant_id"] = id)
    IN  group_mean([i \in 1..Len(own) |-> own[i].v["final_risk_score"]])

\* the ranking's rows are in non-increasing order of mean risk, as reported and
\* before rounding, so row 0 has the maximal mean risk
RankingDescending(t, ret) ==
    \A i, j \in 1..Len(ret.rows) :
       i < j => /\ FGe(ret.rows[i].avg_risk, ret.rows[j].avg_risk)
                /\ FGe(MerchantMean(t, ret.rows[i].merchant_id),
                       MerchantMean(t, ret.rows[j].merchant_id))

HighRiskCalls == {k \in 1..Len(calls) : calls[k].op = "high_risk_transactions"}

\* the display columns, in their fixed order
ExpectedDisplay ==
    <<"transaction_time", "merchant_id", "customer_id", "Amount", "rule_risk",
      "ml_probability", "final_risk_score", "risk_label", "Class">>

\* the cells of row r under the columns cs
Shown(r, cs) == [c \in {cs[i] : i \in 1..Len(cs)} |-> r.v[c]]

\* C13: high_risk_transactions returns exactly the rows of the scored table
\* whose final_risk_score is >= the threshold, in non-increasing score order,
\* under the display columns the table has; their number is high_risk_count for
\* the same threshold; at the default threshold 0.70 they are exactly the rows
\* labelled HIGH.
C13_HighRiskView ==
    \A k \in HighRiskCalls :
       LET df   == calls[k].arg.df
           thr  == calls[k].arg.threshold
           ret  == calls[k].ret
           cs   == SelectSeq(ExpectedDisplay, LAMBDA c : c \in df.cols)
           high == {i \in 1..Len(df.rows) : FGe(df.rows[i].v["final_risk_score"], thr)}
       IN  /\ ret.columns = cs
           /\ Len(ret.rows) = Cardinality(high)
           /\ \A i \in high :
                Cardinality({j \in 1..Len(ret.rows) : ret.rows[j].v = Shown(df.rows[i], cs)})
                  = Cardinality({j \in high : Shown(df.rows[j], cs) = Shown(df.rows[i], cs)})
           /\ \A i, j \in 1..Len(ret.rows) :
                i < j => FGe(ret.rows[i].v["final_risk_score"],
                             ret.rows[j].v["final_risk_score"])
           /\ calls[k - 1].op = "high_risk_count" /\ calls[k - 1].arg = calls[k].arg
           /\ calls[k - 1].ret = Len(ret.rows)
           /\ FEq(thr, FromDecimal(70, 2)) =>
                /\ high = {i \in 1..Len(df.rows) : df.rows[i].v["risk_label"] = "HIGH"}
                /\ \A j \in 1..Len(ret.rows) : ret.rows[j].v["risk_label"] = "HIGH"

\* at the default threshold the view was computed for a table that has a row
\* scored exactly 0.70, a row above it (returned first) and a row below it (left out)
C13_Witness ==
    \E k \in HighRiskCalls :
       LET ret == calls[k].ret IN
       /\ FEq(calls[k].arg.threshold, FromDecimal(70, 2))
       /\ Len(ret.rows) = 2
       /\ Len(calls[k].arg.df.rows) = 3
       /\ FLt(FromDecimal(70, 2), ret.rows[1].v["final_risk_score"])
       /\ FEq(ret.rows[2].v["final_risk_score"], FromDecimal(70, 2))
       /\ FLt(ret.rows[2].v["final_risk_score"],
              calls[k].arg.df.rows[1].v["final_risk_score"])


TrendCalls == {k \in 1..Len(calls) : calls[k].op = "daily_risk_trend"}

\* the exact sum of the doubles vals[i..], as an integer multiple of 2^e
RECURSIVE ExactSum(_, _, _)
ExactSum(vals, i, e) ==
    IF i > Len(vals) THEN << >>
    ELSE BigAdd(IF vals[i].m = << >> THEN << >> ELSE BigShl(vals[i].m, vals[i].e - e),
                ExactSum(vals, i + 1, e))

\* the arithmetic mean of the doubles vals, rounded half-even to the given
\* number of decimals, computed exactly (no intermediate rounding)
ExactMeanRounded(vals, places) ==
    LET e  == 0 - 120
        qr == BigDivSmall(BigMulSmall(ExactSum(vals, 1, e), 10^places), Len(vals))
        q2 == BigAdd(BigShl(qr[1], 1), IF qr[2] = 0 THEN << >> ELSE <<1>>)
    IN  FromDecimal(BigToNat(BigRint(q2, 1 - e)), places)

\* the calendar day, counted from the base date, of a Time offset in seconds
DayOf(seconds) == seconds \div 86400

\* the rows of t whose Time falls on day d
OnDay(t, d) == SelectSeq(t.rows, LAMBDA r : DayOf(r.v["Time"]) = d)

\* one row per calendar date present, in strictly ascending date order, with the
\* date's fraud count and row count; the row counts add up to the table's
TrendPartitions(t, ret) ==
    /\ {ret.rows[i].date : i \in 1..Len(ret.rows)}
         = {DayOf(t.rows[i].v["Time"]) : i \in 1..Len(t.rows)}
    /\ \A i, j \in 1..Len(ret.rows) : i < j => ret.rows[i].date < ret.rows[j].date
    /\ \A i \in 1..Len(ret.rows) :
         LET g == OnDay(t, ret.rows[i].date) IN
         /\ ret.rows[i].transaction_count = Len(g)
         /\ ret.rows[i].fraud_count = Len(SelectSeq(g, LAMBDA r : r.v["Class"] = 1))
    /\ SumOver(ret.rows, "transaction_count") = Len(t.rows)

\* C14 as stated: with transaction_time present, daily_risk_trend returns one
\* row per distinct calendar date of 2024-01-01 + Time seconds, in strictly
\* ascending date order, each carrying the date's mean final risk score, its
\* number of Class = 1 rows and its row count, the row counts summing to the
\* table's row count.
C14_TrendCarriesMean ==
    \A k \in TrendCalls :
       LET t == calls[k].arg
           ret == calls[k].ret
       IN  "transaction_time" \in t.cols =>
             /\ TrendPartitions(t, ret)
             /\ \A i \in 1..Len(ret.rows) :
                  LET g == OnDay(t, ret.rows[i].date) IN
                  FEq(ret.rows[i].avg_risk,
                      group_mean([j \in 1..Len(g) |-> g[j].v["final_risk_score"]]))

\* C14 amended: the same, each row carrying the date's mean final risk score
\* rounded to 4 decimal places.
C14_TrendCarriesRoundedMean ==
    \A k \in TrendCalls :
       LET t == calls[k].arg
           ret == calls[k].ret
       IN  "transaction_time" \in t.cols =>
             /\ TrendPartitions(t, ret)
             /\ \A i \in 1..Len(ret.rows) :
                  LET g == OnDay(t, ret.rows[i].date) IN
                  FEq(ret.rows[i].avg_risk,
                      ExactMeanRounded([j \in 1..Len(g) |-> g[j].v["final_risk_score"]], 4))

\* the trend was computed for a table whose first row is at 00:00:00 of the
\* second day and which has a row at 23:59:59 of the first day: two dates, the
\* later one with two rows
C14_Witness ==
    \E k \in TrendCalls :
       LET t == calls[k].arg
           ret == calls[k].ret
       IN  /\ "transaction_time" \in t.cols
           /\ Len(t.rows) = 3
           /\ t.rows[1].v["Time"] = 86400
           /\ \E i \in 2..3 : t.rows[i].v["Time"] = 86399
           /\ Len(ret.rows) = 2
           /\ ret.rows[2].transaction_count = 2


InsightCalls ==
    {k \in 1..Len(calls) : calls[k].op \in {"generate_insights", "get_ai_insights"}}

FraudRateTexts ==
    {"Fraud rate is critically elevated at {}%. Immediate escalation and manual case review are recommended.",
     "Fraud rate is above normal at {}%. Increase monitoring frequency and review flagged merchants.",
     "Fraud rate is within acceptable bounds at {}%. No systemic fraud pattern detected."}

MeanRiskTexts ==
    {"Portfolio-wide average risk score is HIGH ({}). Review top-ranked merchants and consider tightening transaction limits.",
     "Portfolio average risk score is MODERATE ({}). Monitor borderline merchants proactively.",
     "Portfolio average risk score is LOW ({}). System operating within normal risk parameters."}

TopMerchantTexts ==
    {"No merchant data available for analysis.",
     "Highest-risk merchant: {} - avg risk score {}, {} transactions, fraud rate {}%."}

TrendTexts ==
    {"Insufficient time-series data for trend analysis.",
     "Risk trend is INCREASING. Recent avg: {} vs baseline: {}. Investigate recent activity spikes and new merchant patterns.",
     "Risk trend is DECREASING. Recent avg: {} vs baseline: {}. Risk controls appear to be working effectively.",
     "Risk trend is STABLE. Recent avg: {} is consistent with baseline: {}."}

\* C15: generate_insights returns exactly four messages, in the order fraud
\* rate, mean risk, top merchant, trend, for every metrics snapshot; a missing
\* fraud_rate or avg_risk counts as 0.0, a missing or empty merchant ranking
\* gives the no-merchant message, a missing, empty or one-point trend the
\* insufficient-data message.
C15_FourInsightsInOrder ==
    \A k \in InsightCalls :
       LET ret == calls[k].ret
           snapshot == calls[k].arg
           Absent(key) == calls[k].op = "generate_insights" /\ key \notin DOMAIN snapshot
       IN  /\ Len(ret) = 4
           /\ ret[1].text \in FraudRateTexts
           /\ ret[2].text \in MeanRiskTexts
           /\ ret[3].text \in TopMerchantTexts
           /\ ret[4].text \in TrendTexts
           /\ Absent("fraud_rate") =>
                /\ ret[1].text = "Fraud rate is within acceptable bounds at {}%. No systemic fraud pattern detected."
                /\ ret[1].args = <<0>>
           /\ Absent("avg_risk") =>
                /\ ret[2].text = "Portfolio average risk score is LOW ({}). System operating within normal risk parameters."
                /\ ret[2].args = <<0>>
           /\ (Absent("merchant_ranking")
                 \/ (calls[k].op = "generate_insights" /\ ~Absent("merchant_ranking")
                       /\ snapshot["merchant_ranking"].rows = << >>)) =>
                ret[3].text = "No merchant data available for analysis."
           /\ (Absent("daily_risk_trend")
                 \/ (calls[k].op = "generate_insights" /\ ~Absent("daily_risk_trend")
                       /\ Len(snapshot["daily_risk_trend"].rows) <= 1)) =>
                ret[4].text = "Insufficient time-series data for trend analysis."

\* insights were generated from a snapshot without any of the four keys
C15_Witness ==
    /\ Len(calls) = 1
    /\ calls[1].op = "generate_insights"
    /\ DOMAIN calls[1].arg = {}
    /\ Len(calls[1].ret) = 4


SnapshotCalls == {k \in 1..Len(calls) : calls[k].op = "generate_insights"}

\* the value generate_insights reads under key: 0.0 when the snapshot lacks it
Reading(snapshot, key) == IF key \in DOMAIN snapshot THEN snapshot[key] ELSE F0

\* ALERT above hi, WARNING above lo up to hi, no marker up to lo
ExpectedSeverity(x, lo, hi) ==
    IF FLt(hi, x) THEN "ALERT"
    ELSE IF FLt(lo, x) /\ FLe(x, hi) THEN "WARNING"
    ELSE ""

\* C16: the fraud-rate message is marked ALERT iff the fraud rate is > 0.05,
\* WARNING iff it is > 0.01 and <= 0.05, and unmarked otherwise; the mean-risk
\* message is marked ALERT iff the mean risk is > 0.70, WARNING iff it is > 0.40
\* and <= 0.70, and unmarked otherwise; the top-merchant message is never marked.
C16_SeverityThresholds ==
    \A k \in SnapshotCalls :
       LET ret == calls[k].ret
           fr  == Reading(calls[k].arg, "fraud_rate")
           ar  == Reading(calls[k].arg, "avg_risk")
       IN  /\ ret[1].severity = ExpectedSeverity(fr, FromDecimal(1, 2), FromDecimal(5, 2))
           /\ ret[2].severity = ExpectedSeverity(ar, FromDecimal(40, 2), FromDecimal(70, 2))
           /\ ret[3].severity = ""
           /\ (FEq(fr, FromDecimal(5, 2)) => ret[1].severity = "WARNING")
           /\ (FEq(fr, FromDecimal(1, 2)) => ret[1].severity = "")
           /\ (FEq(ar, FromDecimal(70, 2)) => ret[2].severity = "WARNING")
           /\ (FEq(ar, FromDecimal(40, 2)) => ret[2].severity = "")

\* insights were generated for a fraud rate of exactly 0.05 and a mean risk of
\* exactly 0.40, with a merchant ranking that has a top merchant
C16_Witness ==
    \E k \in SnapshotCalls :
       /\ DOMAIN calls[k].arg = InsightKeys
       /\ FEq(calls[k].arg["fraud_rate"], FromDecimal(5, 2))
       /\ FEq(calls[k].arg["avg_risk"], FromDecimal(40, 2))
       /\ calls[k].arg["merchant_ranking"].rows # << >>
       /\ calls[k].ret[1].severity = "WARNING"
       /\ calls[k].ret[2].severity = ""


\* the mean of a window of one to three daily points: their sum over their number
WindowMean(w) ==
    IF Len(w) = 1 THEN w[1]
    ELSE IF Len(w) = 2 THEN FDivSmall(FAdd(w[1], w[2]), 2)
    ELSE FDivSmall(FAdd(FAdd(w[1], w[2]), w[3]), 3)

\* the avg_risk values of a trend, in date order
Points(trend) == [i \in 1..Len(trend.rows) |-> trend.rows[i].avg_risk]

FirstThree(p) == SubSeq(p, 1, IF Len(p) < 3 THEN Len(p) ELSE 3)

LastThree(p) == SubSeq(p, IF Len(p) < 3 THEN 1 ELSE Len(p) - 2, Len(p))

\* C17: with recent the mean avg_risk of the last 3 daily points and baseline
\* that of the first 3, the trend insight is the WARNING "increasing" message
\* iff recent > 1.10 * baseline, the unmarked "decreasing" message iff recent <
\* 0.90 * baseline and not increasing, the "stable" message otherwise, and the
\* insufficient-data message iff the trend has fewer than 2 points.
C17_TrendInsight ==
    \A k \in SnapshotCalls :
       "daily_risk_trend" \in DOMAIN calls[k].arg =>
          LET p        == Points(calls[k].arg["daily_risk_trend"])
              msg      == calls[k].ret[4]
              recent   == WindowMean(LastThree(p))
              baseline == WindowMean(FirstThree(p))
              rising   == FLt(FMul(FromDecimal(110, 2), baseline), recent)
              falling  == FLt(recent, FMul(FromDecimal(90, 2), baseline))
          IN  /\ (msg.text = "Insufficient time-series data for trend analysis.") <=> Len(p) < 2
              /\ Len(p) >= 2 =>
                   /\ (msg.text = "Risk trend is INCREASING. Recent avg: {} vs baseline: {}. Investigate recent activity spikes and new merchant patterns.")
                        <=> rising
                   /\ (msg.text = "Risk trend is DECREASING. Recent avg: {} vs baseline: {}. Risk controls appear to be working effectively.")
                        <=> (falling /\ ~rising)
                   /\ (msg.text = "Risk trend is STABLE. Recent avg: {} is consistent with baseline: {}.")
                        <=> (~rising /\ ~falling)
                   /\ (msg.severity = "WARNING") <=> rising
                   /\ msg.severity \in {"", "WARNING"}

\* the insight was generated for a trend of four points whose first three are
\* 0.30 and whose last is 0.3901, so that the last three average more than 1.10
\* times the first three
C17_Witness ==
    \E k \in SnapshotCalls :
       /\ "daily_risk_trend" \in DOMAIN calls[k].arg
       /\ Points(calls[k].arg["daily_risk_trend"])
            = <<FromDecimal(30, 2), FromDecimal(30, 2), FromDecimal(30, 2), FromDecimal(3901, 4)>>
       /\ calls[k].ret[4].severity = "WARNING"

(***************************************************************************)
(* C18.  The order of the four drop stages of governance.clean.             *)
(***************************************************************************)
CleanedCalls == {i \in CleanCalls : ~calls[i].ret.raised}

StageNames == {"nulls", "duplicates", "amounts", "labels"}

RunStage(name, df) ==
    CASE name = "nulls"      -> _drop_nulls(df).df
      [] name = "duplicates" -> _remove_duplicates(df).df
      [] name = "amounts"    -> _filter_invalid_amounts(df).df
      [] name = "labels"     -> _filter_invalid_labels(df).df

StageOrders == {o \in [1..4 -> StageNames] : \A a, b \in 1..4 : o[a] = o[b] => a = b}

RunStages(df, o) == RunStage(o[4], RunStage(o[3], RunStage(o[2], RunStage(o[1], df))))

\* what the stages print when they run as null-drop, dedup, amount filter:
\* each count is taken on what the stages before it left
CountsInOrder(t) ==
    LET NoNull(i)  == t.rows[i].na = {}
        First(i)   == \A j \in 1..(i - 1) :
                         NoNull(j) => t.rows[j].v # t.rows[i].v
        InRange(i) == t.rows[i].v["Amount"] >= 0 /\ t.rows[i].v["Amount"] <= AMOUNT_CEILING
        Binary(i)  == t.rows[i].v["Class"] \in {0, 1}
        All        == 1..Len(t.rows)
        nulls      == Cardinality({i \in All : ~NoNull(i)})
        dups       == Cardinality({i \in All : NoNull(i) /\ ~First(i)})
        amounts    == Cardinality({i \in All : NoNull(i) /\ First(i) /\ ~InRange(i)})
        left       == Cardinality({i \in All : NoNull(i) /\ First(i) /\ InRange(i) /\ Binary(i)})
    IN  (IF nulls # 0 THEN <<Line("[Governance] Dropped rows containing null values", nulls)>> ELSE << >>)
        \o (IF dups # 0 THEN <<Line("[Governance] Removed exact duplicate rows", dups)>> ELSE << >>)
        \o (IF amounts # 0
            THEN <<Line("[Governance] Filtered rows with out-of-range Amount values", amounts)>>
            ELSE << >>)
        \o <<Line("[Governance] Validation complete", left)>>

StagesInOrder ==
    \A i \in CleanedCalls :
       /\ calls[i].ret.printed = CountsInOrder(calls[i].arg)
       /\ calls[i].ret.df = RunStages(calls[i].arg,
                                      <<"nulls", "duplicates", "amounts", "labels">>)

\* C18 as stated: clean runs null-drop, dedup, amount filter, label filter in
\* that order, and among the tables clean is called on there is one on which
\* another order of the same four stages leaves a different table
C18_StagesOrderSensitive ==
    CleanedCalls # {} =>
       /\ StagesInOrder
       /\ \E t \in {u \in RawTables : _validate_schema(u) = {}} :
             \E o \in StageOrders : RunStages(t, o) # clean(t).df

\* C18, amended: clean runs null-drop, dedup, amount filter, label filter in
\* that order, which shows in the counts each stage prints; the table it
\* returns is the one every order of the four stages leaves
C18_StagesInOrderSameTable ==
    /\ StagesInOrder
    /\ \A i \in CleanedCalls :
          \A o \in StageOrders : RunStages(calls[i].arg, o) = calls[i].ret.df

\* clean has run on a table in which a row with a missing cell is repeated and
\* one row is left: two lines are printed, the null count and the closing one
C18_Witness ==
    \E i \in CleanedCalls :
       LET t == calls[i].arg IN
       /\ \E a, b \in 1..Len(t.rows) :
             a < b /\ t.rows[a].na # {} /\ t.rows[a].v = t.rows[b].v /\ t.rows[a].na = t.rows[b].na
       /\ Len(calls[i].ret.df.rows) = 1
       /\ Len(calls[i].ret.printed) = 2

(***************************************************************************)
(* C19.  Rows whose P(fraud) is 0.                                          *)
(***************************************************************************)
ScoreCalls == {k \in 1..Len(calls) : calls[k].op = "score_transactions" /\ ~calls[k].ret.raised}

\* the rows of a score_transactions call that were given P(fraud) = 0
ZeroRows(k) == {i \in 1..Len(calls[k].arg.df.rows) : calls[k].arg.ml_probability[i].val = F0}

ZeroProbabilityRows ==
    \A k \in ScoreCalls : \A i \in ZeroRows(k) :
       LET rule  == calls[k].arg.rule_risk[i].val
           row   == calls[k].ret.df.rows[i]
           final == row.v["final_risk_score"]
       IN  /\ row.v["rule_risk"] = rule
           /\ FEq(final, FMul(FromDecimal(35, 2), rule))
           /\ FLe(final, FromDecimal(35, 2))
           /\ row.v["risk_label"] = "LOW"

\* a call on amounts 50, 1500, 4000, all in hours 0..5, every customer seen
\* fewer than 10 times, P(fraud) = 0 throughout
IsScenario(k) ==
    LET df == calls[k].arg.df IN
    /\ Len(df.rows) = 3
    /\ "transaction_time" \in df.cols
    /\ <<df.rows[1].v["Amount"], df.rows[2].v["Amount"], df.rows[3].v["Amount"]>>
          = <<50, 1500, 4000>>
    /\ \A i \in 1..3 : HourOfDay(df, i) \in 0..5
    /\ ZeroRows(k) = 1..3

ScenarioScores(k, rules, finals) ==
    \A i \in 1..3 :
       /\ FEq(calls[k].ret.df.rows[i].v["rule_risk"], rules[i])
       /\ FEq(calls[k].ret.df.rows[i].v["final_risk_score"], finals[i])
       /\ calls[k].ret.df.rows[i].v["risk_label"] = "LOW"

\* C19 as stated: with P(fraud) = 0 the final score is 0.35 times the rule
\* score, at most 0.35 and LOW; on amounts 50, 1500, 4000, off-hours, the rule
\* scores are 0.2, 0.6, 0.8 and the final scores exactly 0.07, 0.21, 0.28
C19_ZeroProbabilityExactScores ==
    /\ ZeroProbabilityRows
    /\ \A k \in ScoreCalls :
          IsScenario(k) =>
             ScenarioScores(k,
                 <<FromDecimal(2, 1), FromDecimal(6, 1), FromDecimal(8, 1)>>,
                 <<FromDecimal(7, 2), FromDecimal(21, 2), FromDecimal(28, 2)>>)

\* C19, amended: with P(fraud) = 0 the final score is 0.35 times the rule
\* score, at most 0.35 and LOW; on amounts 50, 1500, 4000, off-hours, the rule
\* scores are the doubles 0.2, 0.4 + 0.2, 0.6 + 0.2 and the final scores the
\* doubles 0.35 * 0.2, 0.35 * (0.4 + 0.2), 0.35 * 0.8, which are 0.07, 0.21, 0.28
\* when rounded to 4 decimals, and none of which is the double 0.07, 0.21, 0.28
C19_ZeroProbabilityFloatScores ==
    /\ ZeroProbabilityRows
    /\ \A k \in ScoreCalls :
          IsScenario(k) =>
             LET rules  == <<FromDecimal(2, 1),
                             FAdd(FromDecimal(4, 1), FromDecimal(2, 1)),
                             FAdd(FromDecimal(6, 1), FromDecimal(2, 1))>>
                 finals == [i \in 1..3 |-> FMul(FromDecimal(35, 2), rules[i])]
                 stated == <<FromDecimal(7, 2), FromDecimal(21, 2), FromDecimal(28, 2)>>
             IN  /\ ScenarioScores(k, rules, finals)
                 /\ FEq(rules[3], FromDecimal(8, 1))
                 /\ \A i \in 1..3 : /\ FEq(Round(finals[i], 4), stated[i])
                                    /\ ~FEq(finals[i], stated[i])

\* the three-row scenario has been scored with P(fraud) = 0: the second row's
\* rule score is above 0.6 and its final score above 0.21
C19_Witness ==
    \E k \in ScoreCalls :
       /\ IsScenario(k)
       /\ FLt(FromDecimal(6, 1), calls[k].ret.df.rows[2].v["rule_risk"])
       /\ FLt(FromDecimal(21, 2), calls[k].ret.df.rows[2].v["final_risk_score"])

\* a row on which all three rules fire has been scored with P(fraud) = 0
AllRulesZeroProbability ==
    \E k \in ScoreCalls : \E i \in ZeroRows(k) :
       /\ FEq(calls[k].arg.rule_risk[i].val, F1)
       /\ FEq(calls[k].ret.df.rows[i].v["final_risk_score"], FromDecimal(35, 2))

(***************************************************************************)
(* C20.  What enrichment and scoring leave alone.                           *)
(***************************************************************************)
EnrichmentColumns == {"merchant_id", "customer_id", "transaction_time"}
RiskColumns == {"rule_risk", "ml_probability", "final_risk_score", "risk_label"}

\* b has the rows of a, in a's order and under a's labels, and on each of the
\* columns cs the cells of a
SameRowsOn(a, b, cs) ==
    /\ Len(b.rows) = Len(a.rows)
    /\ \A i \in 1..Len(a.rows) :
          /\ b.rows[i].idx = a.rows[i].idx
          /\ \A c \in cs : /\ b.rows[i].v[c] = a.rows[i].v[c]
                            /\ (c \in b.rows[i].na) = (c \in a.rows[i].na)

\* b is a with exactly the columns new added and nothing else changed
AddsExactly(a, b, new) ==
    /\ b.cols \ a.cols = new
    /\ b.cols = a.cols \cup new
    /\ SameRowsOn(a, b, a.cols)

\* b is a with the columns new written (added, or replaced where a had one of
\* that name) and nothing else changed
Writes(a, b, new) ==
    /\ b.cols = a.cols \cup new
    /\ SameRowsOn(a, b, a.cols \ new)

Enriched == pc \in {"enriched", "features", "modelled", "ruled", "done"}

\* the tables the callers hold are the ones they passed in: cleaned is still
\* what governance returned, enriched still what enrich_schema returned
ArgumentsNotMutated ==
    /\ Enriched => cleaned = clean(raw).df
    /\ Enriched => enriched = enrich_schema(clean(raw).df, NoRng).df

\* the identifiers are those drawn at enrichment, in the enriched table at
\* every later stage and in the scored table
IdentifiersKept ==
    Enriched =>
       LET n == Len(cleaned.rows)
           m == Choice(merchants, n, default_rng(RANDOM_SEED, NoRng))
           c == Choice(customers, n, m.g)
           Ids(t) == /\ [i \in 1..n |-> t.rows[i].v["merchant_id"]] = m.vals
                     /\ [i \in 1..n |-> t.rows[i].v["customer_id"]] = c.vals
       IN  /\ Ids(enriched)
           /\ pc = "done" => Ids(scored)

\* C20: enrich_schema adds exactly merchant_id, customer_id and
\* transaction_time, score_transactions exactly the four risk columns; neither
\* changes a column that was present, the rows or their order, nor the table
\* it was given; the scored table has the rows of the cleaned table and the
\* identifiers of enrichment.
C20_StagesOnlyAddColumns ==
    /\ Enriched => AddsExactly(cleaned, enriched, EnrichmentColumns)
    /\ pc = "done" => /\ AddsExactly(enriched, scored, RiskColumns)
                       /\ SameRowsOn(cleaned, scored, cleaned.cols)
    /\ ArgumentsNotMutated
    /\ IdentifiersKept

\* what every run does satisfy: enrich_schema writes merchant_id, customer_id
\* and transaction_time, score_transactions the four risk columns, a column of
\* one of these names that the table already had being replaced; no other
\* column, no row and no caller's table is changed
StagesWriteOnlyTheirColumns ==
    /\ Enriched => /\ Writes(cleaned, enriched, EnrichmentColumns)
                    /\ cleaned.cols \cap EnrichmentColumns = {}
                          => AddsExactly(cleaned, enriched, EnrichmentColumns)
    /\ pc = "done" => /\ Writes(enriched, scored, RiskColumns)
                       /\ enriched.cols \cap RiskColumns = {}
                             => AddsExactly(enriched, scored, RiskColumns)
                       /\ SameRowsOn(cleaned, scored, cleaned.cols \ EnrichmentColumns)
    /\ ArgumentsNotMutated
    /\ IdentifiersKept

\* a finished run on a file that already has a merchant_id column: the scored
\* table carries the drawn identifier where the file had its own
C20_Witness ==
    /\ pc = "done"
    /\ "merchant_id" \in raw.cols
    /\ Len(scored.rows) = 2
    /\ \A i \in 1..2 :
          /\ cleaned.rows[i].v["merchant_id"] = <<"MRC_">> \o ZFill(999, 3)
          /\ scored.rows[i].v["merchant_id"] \in {merchants[k] : k \in 1..NUM_MERCHANTS}

(***************************************************************************)
(* C21.  The counts governance.clean prints.                                *)
(***************************************************************************)
StageLines(printed) ==
    {i \in 1..Len(printed) : printed[i].text # "[Governance] Validation complete"}

RECURSIVE SumCounts(_, _)
SumCounts(printed, S) ==
    IF S = {} THEN 0
    ELSE LET i == CHOOSE j \in S : TRUE
         IN  printed[i].n + SumCounts(printed, S \ {i})

EmittedTotal(printed) == SumCounts(printed, StageLines(printed))

\* the rows the label filter removes: complete, first of their kind, in range,
\* with a Class other than 0 and 1
LabelDrops(t) ==
    {i \in 1..Len(t.rows) :
       /\ t.rows[i].na = {}
       /\ \A j \in 1..(i - 1) : t.rows[j].na = {} => t.rows[j].v # t.rows[i].v
       /\ t.rows[i].v["Amount"] >= 0 /\ t.rows[i].v["Amount"] <= AMOUNT_CEILING
       /\ t.rows[i].v["Class"] \notin {0, 1}}

\* C21: the counts clean emits for its drop stages add up to the number of
\* input rows minus the number of output rows (every stage that removes a row
\* emits its count), and the rows returned are those the four stages leave,
\* whatever was emitted.
C21_CountsAddUp ==
    \A i \in CleanedCalls :
       /\ EmittedTotal(calls[i].ret.printed)
             = Len(calls[i].arg.rows) - Len(calls[i].ret.df.rows)
       /\ calls[i].ret.df = RunStages(calls[i].arg,
                                      <<"nulls", "duplicates", "amounts", "labels">>)

\* what every call does satisfy: the emitted counts fall short of the rows
\* removed by exactly the rows the label filter removed
CountsAddUpButLabels ==
    \A i \in CleanedCalls :
       /\ EmittedTotal(calls[i].ret.printed) + Cardinality(LabelDrops(calls[i].arg))
             = Len(calls[i].arg.rows) - Len(calls[i].ret.df.rows)
       /\ calls[i].ret.df = RunStages(calls[i].arg,
                                      <<"nulls", "duplicates", "amounts", "labels">>)

\* clean has removed a row for its Class and printed the closing line only
C21_Witness ==
    \E i \in CleanedCalls :
       /\ LabelDrops(calls[i].arg) # {}
       /\ Len(calls[i].ret.df.rows) < Len(calls[i].arg.rows)
       /\ StageLines(calls[i].ret.printed) = {}
       /\ Len(calls[i].ret.printed) = 1

(***************************************************************************)
(* C22.  The two windows of the trend insight on short trends.              *)
(***************************************************************************)
StableText == "Risk trend is STABLE. Recent avg: {} is consistent with baseline: {}."

\* the trend an insight call worked on and its fourth message: the snapshot's
\* trend for generate_insights, the scored table's daily trend for get_ai_insights
TrendInsights ==
    {[trend |-> calls[k].arg["daily_risk_trend"], msg |-> calls[k].ret[4]] :
        k \in {j \in SnapshotCalls : "daily_risk_trend" \in DOMAIN calls[j].arg}}
    \cup
    {[trend |-> daily_risk_trend(calls[k].arg), msg |-> calls[k].ret[4]] :
        k \in {j \in 1..Len(calls) : calls[j].op = "get_ai_insights"}}

Dates(rows) == {rows[i].date : i \in 1..Len(rows)}

\* C22: on a trend of 2 or 3 points the last-3 and the first-3 window are the
\* same rows and the message is the unmarked STABLE one, with the same figure
\* for recent and baseline; INCREASING or DECREASING is reported only for
\* trends of at least 4 points; with 4 or 5 points the windows share a row.
C22_ShortTrendIsStable ==
    \A t \in TrendInsights :
       LET rows == t.trend.rows
           n    == Len(rows)
       IN  /\ n \in {2, 3} =>
                 /\ tail(rows, 3) = head(rows, 3)
                 /\ t.msg.text = StableText
                 /\ t.msg.severity = ""
                 /\ t.msg.args[1] = t.msg.args[2]
           /\ t.msg.text \notin {StableText, "Insufficient time-series data for trend analysis."}
                 => n >= 4
           /\ n \in {4, 5} => Dates(tail(rows, 3)) \cap Dates(head(rows, 3)) # {}

\* the insight was generated for a trend of three points rising from 0.21 to
\* 0.3901 and reads STABLE
C22_Witness ==
    \E t \in TrendInsights :
       /\ Points(t.trend) = <<FromDecimal(2100, 4), FromDecimal(3000, 4), FromDecimal(3901, 4)>>
       /\ t.msg.text = StableText

\* a trend of more than MaxPoints points reads INCREASING
LongTrendIncreasing ==
    \E t \in TrendInsights :
       /\ Len(t.trend.rows) = MaxPoints + 1
       /\ t.msg.severity = "WARNING"

=============================================================================
